---- MODULE Spec2Model ----
(***************************************************************************)
(* Payment settlement and payout pipeline of the marketplace backend       *)
(* (convex/paymentsActions.ts and its callers).                            *)
(*                                                                         *)
(* Specifications over one set of variables:                               *)
(*   Spec     the payout / refund flow (payoutToStore, refundToCustomer,   *)
(*            retryFailedPayout, the scheduler's delayed re-executions)    *)
(*            over the payout ledger;                                      *)
(*   PaySpec  the payment completion flow (completePiPayment,              *)
(*            handleIncompletePaymentAction, reportCancelledPayment) over  *)
(*            the payment ledger and the provider's state;                 *)
(*   CompleteSpec  completePiPayment calls alone;                          *)
(*   ApproveSpec   the payment approval flow (approvePiPayment);           *)
(*   DisputeSpec   the dispute resolution controller (resolveReport of     *)
(*            convex/reports.ts, in both versions found in the sources).   *)
(*   WebhookSpec   the webhook signature check (verifyPiWebhook);          *)
(*   CustodySpec   payouts and refunds with the chain submission in its    *)
(*            awaited steps (memo id, loadAccount, submitTransaction);     *)
(*   RetrySpec     store payouts and their scheduled re-executions, with   *)
(*            fairness, for the liveness of the wallet-linkage retry;      *)
(*   ManualRetrySpec  retryFailedPayout calls after a direct payout;       *)
(*   RejectSpec    payouts and refunds whose awaited lookups, scheduler     *)
(*            call and finalizePayout calls may reject as well as answer.  *)
(* The ledger mutations of convex/paymentsQueries.ts are not part of the   *)
(* sources at hand; they are modelled from the written specification.      *)
(***************************************************************************)
EXTENDS Integers, Sequences, FiniteSets, Bags, TLC

\* ------------------------------------------------------------------ bounds
\* Number of payout / refund invocations (running or finished) considered.
MaxInv == 2
\* Number of completion-side invocations considered per run.
MaxCalls == 2

Slots == 1..MaxInv
Stores == {"s1"}
Orders == {"o1", "o2"}
Amounts == {100}

\* ctx.scheduler.runAfter(300000, ...): the wallet-linkage retry delay (ms).
RETRY_DELAY_MS == 300000

VARIABLES
  inv,        \* payout side: per invocation slot, the handler's position and locals
  payouts,    \* PayoutRecord table, indexed by payoutId (0 < id <= MaxInv)
  scheduled,  \* scheduler: set of delayed payoutToStore jobs not yet run
  env,        \* process.env: [apiKey, seed] (PI_API_KEY set, PI_WALLET_PRIVATE_SEED valid)
  call,       \* payment side: per invocation slot, the handler's position and locals
  payments,   \* PaymentRecord table, indexed by paymentId
  provider,   \* the payment network's own state per paymentId
  appr,       \* approval side: the approvePiPayment invocation's position and locals
  reports,    \* reports table: per report, its status and the order it is about
  orders,     \* orders table: per order, status, paymentStatus and totalAmount
  conversations, \* conversations table: per order, the dispute conversation (if any)
  hook,       \* webhook verification: the last request and verifyPiWebhook's answer
  custody     \* the custodial chain account, the clock and the transfers built from it

\* The variables of the approval flow and of the dispute controller.
\* The variables of the webhook check and of the custodial account.
auxVars == <<hook, custody>>

otherVars == <<appr, reports, orders, conversations, auxVars>>

vars == <<inv, payouts, scheduled, env, call, payments, provider,
          appr, reports, orders, conversations, hook, custody>>

\* ------------------------------------------------------ values and lookups
NoPayout == [status |-> "none"]
NoResult == [success |-> FALSE, reason |-> "none", txid |-> 0, willRetry |-> FALSE]

IdleInv ==
  [op |-> "none", storeId |-> "none", orderId |-> "none",
   amount |-> 0, pc |-> "idle", startStatus |-> "none", payoutId |-> 0,
   blockedBy |-> 0, chain |-> "none", fin |-> "none", finReason |-> "none",
   txid |-> 0, finalized |-> 0, nSched |-> 0, result |-> NoResult,
   caller |-> "none", storeOwner |-> "none"]

\* A wallet address as stored on a profile or a store: absent, the empty
\* string, a whitespace-only string, or an address.
WalletVals == {"undefined", "", " ", "GADDR"}

\* JavaScript truthiness of an optional string.
IsFalsy(w) == w \in {"undefined", ""}

\* String.prototype.trim on the wallet values above.
Trim(w) == IF w = " " THEN "" ELSE w

\* What getStoreForPayout / getUser / getProfile can answer for a store:
\* store absent, or the store's own piWalletAddress together with the owner
\* resolution (user missing, profile missing, or the profile's walletAddress).
OwnerAnswers == {"nouser", "noprofile"} \cup WalletVals
StoreAnswers ==
  {[found |-> FALSE, piWalletAddress |-> "undefined", owner |-> "nouser"]} \cup
  [found : {TRUE}, piWalletAddress : WalletVals, owner : OwnerAnswers]

\* What getProfile can answer for a customer.
ProfileAnswers == {"noprofile"} \cup WalletVals

\* payoutToStore lines 489-501: the store's address, overridden by the owner
\* profile's address when the profile exists and its address is truthy; a
\* failing owner lookup (user._id of null) is caught and the store's kept.
ResolveStoreWallet(ans) ==
  IF ans.owner \in {"nouser", "noprofile"} THEN ans.piWalletAddress
  ELSE IF ~IsFalsy(ans.owner) THEN ans.owner
  ELSE ans.piWalletAddress

\* payoutToStore line 504.
PayoutWalletMissing(w) == IsFalsy(w) \/ Trim(w) = ""

\* refundToCustomer line 218.
RefundWalletMissing(p) == p = "noprofile" \/ IsFalsy(p)

\* lines 236 and 530: !apiKey || !walletPrivateSeed?.startsWith('S')
ConfigMissing(e) == ~e.apiKey \/ ~e.seed

\* ------------------------------------------------ payout ledger (mutations)
\* startPayout: the atomic check-and-create of the payout ledger.
SameKey(P, storeId, orderId) ==
  {k \in DOMAIN P : P[k].status # "none" /\ P[k].storeId = storeId
                                       /\ P[k].orderId = orderId}

startPayout_noInProgressGate(P, storeId, orderId, amount, newId) ==
  LET same == SameKey(P, storeId, orderId)
      comp == {k \in same : P[k].status = "completed"}
  IN IF comp # {}
       THEN LET k == CHOOSE k \in comp : TRUE
            IN [status |-> "already_completed", txid |-> P[k].txid,
                payoutId |-> 0, found |-> k, payouts |-> P]
       ELSE [status |-> "new", txid |-> 0, payoutId |-> newId, found |-> 0,
             payouts |-> [P EXCEPT ![newId] =
                 [status |-> "in_progress", storeId |-> storeId,
                  orderId |-> orderId, amount |-> amount, txid |-> 0,
                  failureReason |-> "none"]]]

startPayout_pendingBlocks(P, storeId, orderId, amount, newId) ==
  LET same == SameKey(P, storeId, orderId)
      comp == {k \in same : P[k].status = "completed"}
      prog == {k \in same : P[k].status \in {"in_progress", "pending"}}
  IN IF comp # {}
       THEN LET k == CHOOSE k \in comp : TRUE
            IN [status |-> "already_completed", txid |-> P[k].txid,
                payoutId |-> 0, found |-> k, payouts |-> P]
     ELSE IF prog # {}
       THEN LET k == CHOOSE k \in prog : TRUE
            IN [status |-> "in_progress", txid |-> 0,
                payoutId |-> 0, found |-> k, payouts |-> P]
     ELSE [status |-> "new", txid |-> 0, payoutId |-> newId, found |-> 0,
           payouts |-> [P EXCEPT ![newId] =
               [status |-> "in_progress", storeId |-> storeId,
                orderId |-> orderId, amount |-> amount, txid |-> 0,
                failureReason |-> "none"]]]

startPayout(P, storeId, orderId, amount, newId) ==
  LET same == SameKey(P, storeId, orderId)
      comp == {k \in same : P[k].status = "completed"}
      prog == {k \in same : P[k].status = "in_progress"}
  IN IF comp # {}
       THEN LET k == CHOOSE k \in comp : TRUE
            IN [status |-> "already_completed", txid |-> P[k].txid,
                payoutId |-> 0, found |-> k, payouts |-> P]
     ELSE IF prog # {}
       THEN LET k == CHOOSE k \in prog : TRUE
            IN [status |-> "in_progress", txid |-> 0,
                payoutId |-> 0, found |-> k, payouts |-> P]
     ELSE [status |-> "new", txid |-> 0, payoutId |-> newId, found |-> 0,
           payouts |-> [P EXCEPT ![newId] =
               [status |-> "in_progress", storeId |-> storeId,
                orderId |-> orderId, amount |-> amount, txid |-> 0,
                failureReason |-> "none"]]]

\* finalizePayout: an unguarded patch of the record named by payoutId; an id
\* that names no record patches nothing.
finalizePayout(P, payoutId, status, txid, failureReason) ==
  IF payoutId \in DOMAIN P /\ P[payoutId].status # "none"
    THEN [P EXCEPT ![payoutId].status = status,
                   ![payoutId].txid = txid,
                   ![payoutId].failureReason = failureReason]
    ELSE P

\* ------------------------------------------------- payout / refund handlers
\* Lines 203-213 and 463-473: what the handler does with startPayout's answer.
AfterStart_ignoreInProgress(status) ==
  CASE status = "already_completed" -> "return_completed"
    [] OTHER -> "proceed"

AfterStart_ignoreCompleted(status) ==
  CASE status = "in_progress" -> "return_in_progress"
    [] OTHER -> "proceed"

AfterStart(status) ==
  CASE status = "already_completed" -> "return_completed"
    [] status = "in_progress" -> "return_in_progress"
    [] OTHER -> "proceed"

InProgressReason(op) ==
  IF op = "refundToCustomer" THEN "Refund is currently in progress. Please wait."
  ELSE "Payout is currently in progress. Please wait."

\* Invocations take the slots in order: slot i is the next free one.
NextFree(i) ==
  inv[i].pc = "idle" /\ \A j \in 1..(i - 1) : inv[j].pc # "idle"

\* An external trigger (or resolveReport's runAfter(0, ...)) invokes
\* payoutToStore or refundToCustomer in the next free slot.
Invoke(i, op, storeId, orderId, amount) ==
  /\ NextFree(i)
  /\ inv' = [inv EXCEPT ![i] = [IdleInv EXCEPT !.op = op, !.storeId = storeId, !.orderId = orderId, !.amount = amount,
                 !.pc = "start"]]
  /\ UNCHANGED <<payouts, scheduled, env, otherVars, call, payments, provider>>

\* Step 1 of both handlers: the startPayout mutation and the branch on it.
Start(i) ==
  /\ inv[i].pc = "start"
  /\ LET r == startPayout(payouts, inv[i].storeId, inv[i].orderId, inv[i].amount, i)
         next == AfterStart(r.status)
     IN /\ payouts' = r.payouts
        /\ inv' = [inv EXCEPT ![i] =
             CASE next = "return_completed" ->
                    [@ EXCEPT !.startStatus = r.status, !.blockedBy = r.found,
                              !.pc = "done",
                              !.result = [NoResult EXCEPT !.success = TRUE,
                                                          !.txid = r.txid]]
               [] next = "return_in_progress" ->
                    [@ EXCEPT !.startStatus = r.status, !.blockedBy = r.found,
                              !.pc = "done",
                              !.result = [NoResult EXCEPT
                                            !.reason = InProgressReason(inv[i].op)]]
               [] OTHER ->
                    [@ EXCEPT !.startStatus = r.status, !.blockedBy = r.found,
                              !.payoutId = r.payoutId, !.pc = "lookup"]]
  /\ UNCHANGED <<scheduled, env, otherVars, call, payments, provider>>

\* Steps 2-3 of payoutToStore (lines 476-539): store and owner lookups, the
\* wallet check and the configuration check.
PayoutLookupInv(i) ==
  /\ inv[i].pc = "lookup"
  /\ inv[i].op = "payoutToStore"
  /\ \E ans \in StoreAnswers :
       inv' = [inv EXCEPT ![i] =
         IF ~ans.found
           THEN [@ EXCEPT !.pc = "finalize", !.fin = "failed",
                          !.finReason = "Store or owner not found."]
         ELSE IF PayoutWalletMissing(ResolveStoreWallet(ans))
           THEN [@ EXCEPT !.pc = "schedule"]
         ELSE IF ConfigMissing(env)
           THEN [@ EXCEPT !.pc = "finalize", !.fin = "failed",
                          !.finReason = "Missing or invalid Pi env vars"]
         ELSE [@ EXCEPT !.pc = "submit"]]

PayoutLookup(i) ==
  /\ PayoutLookupInv(i)
  /\ UNCHANGED <<payouts, scheduled, env, otherVars, call, payments, provider>>

\* Steps 2-3 of refundToCustomer (lines 216-244): the customer's profile, the
\* wallet check and the configuration check.
RefundLookupInv(i) ==
  /\ inv[i].pc = "lookup"
  /\ inv[i].op = "refundToCustomer"
  /\ \E p \in ProfileAnswers :
       inv' = [inv EXCEPT ![i] =
         IF RefundWalletMissing(p)
           THEN [@ EXCEPT !.pc = "finalize", !.fin = "failed",
                          !.finReason = "Customer has no Wallet Address linked"]
         ELSE IF ConfigMissing(env)
           THEN [@ EXCEPT !.pc = "finalize", !.fin = "failed",
                          !.finReason = "Missing or invalid Pi env vars"]
         ELSE [@ EXCEPT !.pc = "submit"]]

RefundLookup(i) ==
  /\ RefundLookupInv(i)
  /\ UNCHANGED <<payouts, scheduled, env, otherVars, call, payments, provider>>

\* Lines 509-513: the missing-wallet branch schedules a re-execution of
\* payoutToStore with the same arguments, then finalizes as pending.
RetryJob_noDelay(r) ==
  [op |-> "payoutToStore", storeId |-> r.storeId, orderId |-> r.orderId,
   amount |-> r.amount, delay |-> 0]

RetryJob(r) ==
  [op |-> "payoutToStore", storeId |-> r.storeId, orderId |-> r.orderId,
   amount |-> r.amount, delay |-> RETRY_DELAY_MS]

PayoutSchedule(i) ==
  /\ inv[i].pc = "schedule"
  /\ scheduled' = scheduled (+) SetToBag({RetryJob(inv[i])})
  /\ inv' = [inv EXCEPT ![i] =
       [@ EXCEPT !.pc = "finalize", !.fin = "pending", !.nSched = @ + 1,
                 !.finReason = "Awaiting Wallet Linkage. Retrying soon."]]
  /\ UNCHANGED <<payouts, env, otherVars, call, payments, provider>>

\* Lines 250-281 and 549-606: load the custodial account, build, sign and
\* submit the transfer.  The chain either accepts it (a hash comes back),
\* rejects the submission, or the account cannot be loaded (nothing is
\* submitted).  The hash of an accepted transfer is unique; slot i's is i.
ChainOutcomes == {"accepted", "rejected", "loadfail"}

\* Lines 283-287 and 608-612: the status finalized after an accepted transfer.
SuccessStatus_failed == "failed"

SuccessStatus == "completed"

Submit(i) ==
  /\ inv[i].pc = "submit"
  /\ \E outcome \in ChainOutcomes :
       inv' = [inv EXCEPT ![i] =
         IF outcome = "accepted"
           THEN [@ EXCEPT !.pc = "finalize", !.chain = outcome,
                          !.fin = SuccessStatus, !.txid = i]
           ELSE [@ EXCEPT !.pc = "finalize", !.chain = outcome,
                          !.fin = "failed", !.finReason = "chain error"]]
  /\ UNCHANGED <<payouts, scheduled, env, otherVars, call, payments, provider>>

\* The handler's return value after its finalizePayout call.
ResultOf_retryOnChainError(r) ==
  CASE r.chain = "accepted" -> [NoResult EXCEPT !.success = TRUE, !.txid = r.txid]
    [] r.fin = "pending" \/ r.chain # "none" ->
         [NoResult EXCEPT !.reason = "No valid Wallet Address found",
                          !.willRetry = TRUE]
    [] OTHER -> [NoResult EXCEPT !.reason = r.finReason]

ResultOf(r) ==
  CASE r.chain = "accepted" -> [NoResult EXCEPT !.success = TRUE, !.txid = r.txid]
    [] r.fin = "pending" -> [NoResult EXCEPT !.reason = "No valid Wallet Address found",
                                             !.willRetry = TRUE]
    [] OTHER -> [NoResult EXCEPT !.reason = r.finReason]

\* The finalizePayout mutation that ends every path after a new attempt
\* (lines 221, 238, 283, 293, 480, 515, 533, 608, 616), answering, and the
\* return.  inv[i].finalized counts the finalizePayout calls the invocation
\* has made.  The call that rejects is FinalizeRejects below.
Finalize(i) ==
  /\ inv[i].pc = "finalize"
  /\ payouts' = finalizePayout(payouts, inv[i].payoutId, inv[i].fin,
                               inv[i].txid, inv[i].finReason)
  /\ inv' = [inv EXCEPT ![i] =
       [@ EXCEPT !.pc = "done", !.finalized = @ + 1, !.result = ResultOf(inv[i])]]
  /\ UNCHANGED <<scheduled, env, otherVars, call, payments, provider>>

\* The process running an invocation stops between two awaited steps; its
\* pending locals are lost, what it did to the ledger, the scheduler and the
\* chain stays.
Crash_releasingRecord(i) ==
  /\ inv[i].pc \in {"lookup", "schedule", "submit", "finalize"}
  /\ inv' = [inv EXCEPT ![i] =
       [@ EXCEPT !.pc = "crashed", !.fin = "none", !.finReason = "none",
                 !.txid = 0]]
  /\ payouts' = finalizePayout(payouts, inv[i].payoutId, "failed", 0, "crashed")
  /\ UNCHANGED <<scheduled, env, otherVars, call, payments, provider>>

Crash(i) ==
  /\ inv[i].pc \in {"lookup", "schedule", "submit", "finalize"}
  /\ inv' = [inv EXCEPT ![i] =
       [@ EXCEPT !.pc = "crashed", !.fin = "none", !.finReason = "none",
                 !.txid = 0]]
  /\ UNCHANGED <<payouts, scheduled, env, otherVars, call, payments, provider>>

\* An awaited finalizePayout call rejects: nothing is written.  The call after
\* an accepted transfer (lines 283-287, 608-612) stands inside the try, so the
\* rejection lands in the catch (291, 614), which goes on to call
\* finalizePayout with failed and the error's message.  Every other call
\* (221, 238, 293, 480, 515, 533, 616) stands outside any try: the handler
\* ends with the error, no return value.
FinalizeRejects(i) ==
  /\ inv[i].pc = "finalize"
  /\ inv' = [inv EXCEPT ![i] =
       IF inv[i].chain = "accepted"
         THEN [@ EXCEPT !.pc = "catch", !.finalized = @ + 1, !.fin = "failed",
                        !.finReason = "finalizePayout rejected"]
         ELSE [@ EXCEPT !.pc = "thrown", !.finalized = @ + 1]]
  /\ UNCHANGED <<payouts, scheduled, env, otherVars, call, payments, provider>>

\* Lines 291-299 and 614-622 entered from a rejected finalizePayout(completed):
\* finalizePayout(payoutId, failed, error.message), no txid, then the return
\* of {success: false, reason}; this call rejecting ends the handler with the
\* error.
FinalizeInCatch(i) ==
  /\ inv[i].pc = "catch"
  /\ \E answers \in BOOLEAN :
       IF answers
         THEN /\ payouts' = finalizePayout(payouts, inv[i].payoutId, "failed", 0,
                                          inv[i].finReason)
              /\ inv' = [inv EXCEPT ![i] =
                   [@ EXCEPT !.pc = "done", !.finalized = @ + 1,
                             !.result = [NoResult EXCEPT !.reason = inv[i].finReason]]]
         ELSE /\ payouts' = payouts
              /\ inv' = [inv EXCEPT ![i] =
                   [@ EXCEPT !.pc = "thrown", !.finalized = @ + 1]]
  /\ UNCHANGED <<scheduled, env, otherVars, call, payments, provider>>

\* The awaited lookup of step 2 rejects: getStoreForPayout (line 476) and the
\* customer's getProfile (line 216) stand outside any try, so the handler ends
\* with the error.  (The owner's getUser / getProfile, lines 491-501, are
\* caught: that answer is "nouser" in StoreAnswers.)
LookupRejects(i) ==
  /\ inv[i].pc = "lookup"
  /\ inv' = [inv EXCEPT ![i] = [@ EXCEPT !.pc = "thrown"]]
  /\ UNCHANGED <<payouts, scheduled, env, otherVars, call, payments, provider>>

\* Line 509: the awaited scheduler.runAfter rejects, outside any try; no job
\* is stored and the handler ends with the error.
ScheduleRejects(i) ==
  /\ inv[i].pc = "schedule"
  /\ inv' = [inv EXCEPT ![i] = [@ EXCEPT !.pc = "thrown"]]
  /\ UNCHANGED <<payouts, scheduled, env, otherVars, call, payments, provider>>

\* retryFailedPayout (lines 430-443): the caller must resolve to a user who
\* owns the store; then payoutToStore runs with the caller's arguments.
Tokens == {"t_owner", "t_other", "t_unknown"}
getUserFromToken(t) == IF t = "t_unknown" THEN "null" ELSE t
StoreOwnerAnswers == {"null", "t_owner"}

RetryAuthorized_anyUser(user, storeOwner) ==
  ~(user = "null" \/ storeOwner = "null")

RetryAuthorized(user, storeOwner) ==
  ~(user = "null" \/ storeOwner = "null" \/ storeOwner # user)

\* Line 431: the handler is entered and resolves the caller's session.
RetryFailedPayout(i, token, storeId, orderId, amount) ==
  /\ NextFree(i)
  /\ inv' = [inv EXCEPT ![i] =
       [IdleInv EXCEPT !.op = "retryFailedPayout", !.storeId = storeId,
                       !.orderId = orderId, !.amount = amount,
                       !.caller = getUserFromToken(token), !.pc = "r_store"]]
  /\ UNCHANGED <<payouts, scheduled, env, otherVars, call, payments, provider>>

\* Line 432: the store lookup (null for an unknown store).
RetryStoreLookup(i) ==
  /\ inv[i].pc = "r_store"
  /\ \E storeOwner \in StoreOwnerAnswers :
       inv' = [inv EXCEPT ![i] = [@ EXCEPT !.storeOwner = storeOwner, !.pc = "r_check"]]
  /\ UNCHANGED <<payouts, scheduled, env, otherVars, call, payments, provider>>

\* Lines 434-443: the authorization check; an authorized caller's arguments
\* go to payoutToStore, any other caller gets the error.
RetryCheck(i) ==
  /\ inv[i].pc = "r_check"
  /\ inv' = [inv EXCEPT ![i] =
       IF RetryAuthorized(inv[i].caller, inv[i].storeOwner)
         THEN [IdleInv EXCEPT !.op = "payoutToStore", !.storeId = inv[i].storeId,
                 !.orderId = inv[i].orderId, !.amount = inv[i].amount,
                 !.pc = "start"]
         ELSE [IdleInv EXCEPT !.op = "retryFailedPayout", !.pc = "done",
                 !.result = [NoResult EXCEPT
                    !.reason = "You are not authorized to retry this payout."]]]
  /\ UNCHANGED <<payouts, scheduled, env, otherVars, call, payments, provider>>

\* The scheduler runs a delayed job: payoutToStore with the stored arguments.
RunScheduled(i, job) ==
  /\ NextFree(i)
  /\ BagIn(job, scheduled)
  /\ scheduled' = scheduled (-) SetToBag({job})
  /\ inv' = [inv EXCEPT ![i] = [IdleInv EXCEPT !.op = job.op,
                 
                 !.storeId = job.storeId, !.orderId = job.orderId,
                 !.amount = job.amount, !.pc = "start"]]
  /\ UNCHANGED <<payouts, env, otherVars, call, payments, provider>>

\* ------------------------------------------------ payment ledger (mutations)
Calls == 1..MaxCalls
Payments == {"p1"}

\* A PaymentRecord as createPaymentRecord leaves it at approval time.
ApprovedPayment == [status |-> "approved", txid |-> "none", failureReason |-> "none"]

\* The provider's view of a payment: GET /v2/payments/{id} answers
\* direction, status.transaction_verified, status.developer_completed,
\* status.cancelled and transaction.txid.
FreshProvider(direction, verified, txid) ==
  [direction |-> direction, verified |-> verified, completed |-> FALSE,
   cancelled |-> FALSE, txid |-> txid]

\* getPaymentById: the record of that paymentId.
getPaymentById(P, paymentId) == P[paymentId]

\* updatePaymentStatus: patches the record's status, and its txid and
\* failureReason when given ("none": argument absent).
updatePaymentStatus(P, paymentId, status, txid, failureReason) ==
  [P EXCEPT ![paymentId] =
     [status |-> status,
      txid |-> IF txid = "none" THEN @.txid ELSE txid,
      failureReason |-> IF failureReason = "none" THEN @.failureReason
                        ELSE failureReason]]

\* a || b on optional strings.
OrElse(a, b) == IF a = "none" THEN b ELSE a

IdleCall ==
  [op |-> "none", paymentId |-> "none", txidArg |-> "none", pc |-> "idle",
   calledComplete |-> FALSE, provOK |-> FALSE, provTxid |-> "none",
   wroteCompleted |-> FALSE, processed |-> FALSE, processFailed |-> FALSE,
   overlap |-> FALSE, outcome |-> "none"]

\* Some other call is between its first and its last step.
OtherRunning(i) == \E j \in Calls \ {i} : call[j].pc \notin {"idle", "done"}

NextFreeCall(i) ==
  call[i].pc = "idle" /\ \A j \in 1..(i - 1) : call[j].pc # "idle"

\* ---------------------------------------------------------- completePiPayment
CompleteInvoke(i, p, txid) ==
  /\ NextFreeCall(i)
  /\ call' = [call EXCEPT ![i] = [IdleCall EXCEPT !.op = "completePiPayment",
                 !.paymentId = p, !.txidArg = txid, !.pc = "c_read",
                 !.overlap = OtherRunning(i)]]
  /\ UNCHANGED <<inv, payouts, scheduled, env, otherVars, payments, provider>>

\* Lines 312-335: what the handler does after reading the record.
AfterRead(status, apiKey) ==
  IF status = "completed" THEN "done"
  ELSE IF ~apiKey THEN "c_mockSet"
  ELSE "c_complete"

CRead(i) ==
  /\ call[i].pc = "c_read"
  /\ LET existing == getPaymentById(payments, call[i].paymentId)
         next == AfterRead(existing.status, env.apiKey)
     IN call' = [call EXCEPT ![i] =
          IF next = "done"
            THEN [@ EXCEPT !.pc = "done", !.outcome = "already_completed"]
            ELSE [@ EXCEPT !.pc = next]]
  /\ UNCHANGED <<inv, payouts, scheduled, env, otherVars, payments, provider>>

\* Line 331: the mock completion written when PI_API_KEY is not set.
CMockSet(i) ==
  /\ call[i].pc = "c_mockSet"
  /\ payments' = updatePaymentStatus(payments, call[i].paymentId, "completed",
                                     OrElse(call[i].txidArg, "mock-txid"), "none")
  /\ call' = [call EXCEPT ![i] = [@ EXCEPT !.pc = "c_mockProcess",
                                           !.wroteCompleted = TRUE]]
  /\ UNCHANGED <<inv, payouts, scheduled, env, otherVars, provider>>

\* Lines 333-334: processCompletedPayment outside any try block.
CMockProcess(i) ==
  /\ call[i].pc = "c_mockProcess"
  /\ \E ok \in BOOLEAN :
       call' = [call EXCEPT ![i] =
         IF ok THEN [@ EXCEPT !.pc = "done", !.processed = TRUE,
                              !.outcome = "success"]
         ELSE [@ EXCEPT !.pc = "done", !.processFailed = TRUE,
                        !.outcome = "threw"]]
  /\ UNCHANGED <<inv, payouts, scheduled, env, otherVars, payments, provider>>

\* Lines 338-363: POST /v2/payments/{id}/complete; the provider completes
\* the payment or answers non-success.
CComplete(i) ==
  /\ call[i].pc = "c_complete"
  /\ \E ok \in BOOLEAN :
       /\ provider' = IF ok THEN [provider EXCEPT ![call[i].paymentId].completed = TRUE]
                      ELSE provider
       /\ call' = [call EXCEPT ![i] =
            [@ EXCEPT !.calledComplete = TRUE, !.provOK = ok,
                      !.pc = IF ok THEN "c_fetch" ELSE "c_failComplete"]]
  /\ UNCHANGED <<inv, payouts, scheduled, env, otherVars, payments>>

\* Lines 357-362.
CFailComplete(i) ==
  /\ call[i].pc = "c_failComplete"
  /\ payments' = updatePaymentStatus(payments, call[i].paymentId, "failed",
                                     "none", "Complete API error")
  /\ call' = [call EXCEPT ![i] = [@ EXCEPT !.pc = "done", !.outcome = "failure"]]
  /\ UNCHANGED <<inv, payouts, scheduled, env, otherVars, provider>>

\* Lines 367-375: GET /v2/payments/{id}.
CFetch(i) ==
  /\ call[i].pc = "c_fetch"
  /\ \E ok \in BOOLEAN :
       call' = [call EXCEPT ![i] =
         IF ok THEN [@ EXCEPT !.pc = "c_setCompleted",
                              !.provTxid = provider[call[i].paymentId].txid]
         ELSE [@ EXCEPT !.pc = "c_failPost"]]
  /\ UNCHANGED <<inv, payouts, scheduled, env, otherVars, payments, provider>>

\* Lines 378-382.
CSetCompleted(i) ==
  /\ call[i].pc = "c_setCompleted"
  /\ payments' = updatePaymentStatus(payments, call[i].paymentId, "completed",
                                     OrElse(call[i].txidArg, call[i].provTxid), "none")
  /\ call' = [call EXCEPT ![i] = [@ EXCEPT !.pc = "c_process",
                                           !.wroteCompleted = TRUE]]
  /\ UNCHANGED <<inv, payouts, scheduled, env, otherVars, provider>>

\* Lines 385-392: processCompletedPayment inside the try block.
CProcess(i) ==
  /\ call[i].pc = "c_process"
  /\ \E ok \in BOOLEAN :
       call' = [call EXCEPT ![i] =
         IF ok THEN [@ EXCEPT !.pc = "done", !.processed = TRUE,
                              !.outcome = "success"]
         ELSE [@ EXCEPT !.pc = "c_failPost", !.processFailed = TRUE]]
  /\ UNCHANGED <<inv, payouts, scheduled, env, otherVars, payments, provider>>

\* Lines 393-400: the catch of the post-complete block.
PostCompleteCatchStatus == "failed"

CFailPost(i) ==
  /\ call[i].pc = "c_failPost"
  /\ payments' = updatePaymentStatus(payments, call[i].paymentId,
                                     PostCompleteCatchStatus, "none",
                                     "post-complete error")
  /\ call' = [call EXCEPT ![i] = [@ EXCEPT !.pc = "done", !.outcome = "failure"]]
  /\ UNCHANGED <<inv, payouts, scheduled, env, otherVars, provider>>

\* ----------------------------------------------------- reportCancelledPayment
\* Lines 412-417: one mutation.
ReportCancelled(p) ==
  /\ payments' = updatePaymentStatus(payments, p, "cancelled", "none", "none")
  /\ UNCHANGED <<inv, payouts, scheduled, env, otherVars, call, provider>>

\* ---------------------------------------------- handleIncompletePaymentAction
IncompleteInvoke(i, p) ==
  /\ NextFreeCall(i)
  /\ call' = [call EXCEPT ![i] = [IdleCall EXCEPT
                 !.op = "handleIncompletePaymentAction", !.paymentId = p,
                 !.overlap = OtherRunning(i),
                 !.pc = IF env.apiKey THEN "h_fetch" ELSE "h_mock"]]
  /\ UNCHANGED <<inv, payouts, scheduled, env, otherVars, payments, provider>>

\* Lines 639-647.
HMock(i) ==
  /\ call[i].pc = "h_mock"
  /\ payments' = updatePaymentStatus(payments, call[i].paymentId, "completed",
                                     "mock-txid", "none")
  /\ call' = [call EXCEPT ![i] = [@ EXCEPT !.pc = "done", !.wroteCompleted = TRUE,
                                           !.outcome = "success"]]
  /\ UNCHANGED <<inv, payouts, scheduled, env, otherVars, provider>>

\* Lines 662-682: the branch on the fetched payment.
IncompleteBranch(pay) ==
  IF pay.direction = "user_to_app" /\ pay.verified /\ ~pay.completed
    THEN IF pay.txid = "none" THEN "h_fail" ELSE "h_complete"
  ELSE IF pay.direction = "app_to_user" /\ ~pay.cancelled THEN "h_cancel"
  ELSE "h_fail"

\* Lines 650-661: GET /v2/payments/{id} and the branch.
HFetch(i) ==
  /\ call[i].pc = "h_fetch"
  /\ \E ok \in BOOLEAN :
       call' = [call EXCEPT ![i] =
         IF ok THEN [@ EXCEPT !.pc = IncompleteBranch(provider[call[i].paymentId]),
                              !.provTxid = provider[call[i].paymentId].txid]
         ELSE [@ EXCEPT !.pc = "h_fail"]]
  /\ UNCHANGED <<inv, payouts, scheduled, env, otherVars, payments, provider>>

\* Lines 664-670.
HComplete(i) ==
  /\ call[i].pc = "h_complete"
  /\ \E ok \in BOOLEAN :
       /\ provider' = IF ok THEN [provider EXCEPT ![call[i].paymentId].completed = TRUE]
                      ELSE provider
       /\ call' = [call EXCEPT ![i] =
            [@ EXCEPT !.calledComplete = TRUE, !.provOK = ok,
                      !.pc = IF ok THEN "h_setCompleted" ELSE "h_fail"]]
  /\ UNCHANGED <<inv, payouts, scheduled, env, otherVars, payments>>

\* Lines 673-678.
HCancel(i) ==
  /\ call[i].pc = "h_cancel"
  /\ \E ok \in BOOLEAN :
       /\ provider' = IF ok THEN [provider EXCEPT ![call[i].paymentId].cancelled = TRUE]
                      ELSE provider
       /\ call' = [call EXCEPT ![i] =
            [@ EXCEPT !.pc = IF ok THEN "h_setCancelled" ELSE "h_fail"]]
  /\ UNCHANGED <<inv, payouts, scheduled, env, otherVars, payments>>

\* Line 685.
HSetCompleted(i) ==
  /\ call[i].pc = "h_setCompleted"
  /\ payments' = updatePaymentStatus(payments, call[i].paymentId, "completed",
                                     call[i].provTxid, "none")
  /\ call' = [call EXCEPT ![i] = [@ EXCEPT !.pc = "h_process",
                                           !.wroteCompleted = TRUE]]
  /\ UNCHANGED <<inv, payouts, scheduled, env, otherVars, provider>>

\* Line 686.
HProcess(i) ==
  /\ call[i].pc = "h_process"
  /\ \E ok \in BOOLEAN :
       call' = [call EXCEPT ![i] =
         IF ok THEN [@ EXCEPT !.pc = "done", !.processed = TRUE,
                              !.outcome = "success"]
         ELSE [@ EXCEPT !.pc = "h_fail", !.processFailed = TRUE]]
  /\ UNCHANGED <<inv, payouts, scheduled, env, otherVars, payments, provider>>

\* Line 688.
HSetCancelled(i) ==
  /\ call[i].pc = "h_setCancelled"
  /\ payments' = updatePaymentStatus(payments, call[i].paymentId, "cancelled",
                                     "none", "Handled as incomplete")
  /\ call' = [call EXCEPT ![i] = [@ EXCEPT !.pc = "done", !.outcome = "success"]]
  /\ UNCHANGED <<inv, payouts, scheduled, env, otherVars, provider>>

\* Lines 692-696: the catch.
HFail(i) ==
  /\ call[i].pc = "h_fail"
  /\ payments' = updatePaymentStatus(payments, call[i].paymentId, "failed",
                                     "none", "incomplete handling error")
  /\ call' = [call EXCEPT ![i] = [@ EXCEPT !.pc = "done", !.outcome = "failure"]]
  /\ UNCHANGED <<inv, payouts, scheduled, env, otherVars, provider>>

\* ------------------------------------------------------------ approval flow
\* approvePiPayment (lines 67-183).  One invocation is followed from its
\* arguments to its return; every await is a step of its own.
MaxVerifyAttempts == 3

\* internal.users.getUser: the session's user, or null.
SessionTokens == {"t_user", "t_unknown"}
getUser(t) == IF t = "t_unknown" THEN "null" ELSE "u1"

\* args.amount is optional: absent, or a number.
ClaimedAmounts == {-5, 0, 10}
AmountArgs == [given : {FALSE}, value : {0}] \cup [given : {TRUE}, value : ClaimedAmounts]

\* line 154: amount ?? 0
AmountOrZero(a) == IF a.given THEN a.value ELSE 0

\* The part of args.metadata the handler or the stock check can read: the
\* store reference, the delivery location of this order, and the cart (one
\* line of product "prod1" with a quantity; 0 stands for no items).
\* "undefined" is an absent field.
Countries == {"undefined", "EG", "SA"}
Cities == {"undefined", "Cairo", "Alexandria"}
ItemQuantities == {0, 1, 3}
Metadatas ==
  [storeId : {"undefined", "s1"}, deliveryCountry : Countries,
   deliveryCity : Cities, itemQty : ItemQuantities]

\* The products table as checkInventoryAvailability reads it: the product of
\* a retail store, available, with a tracked quantity and no options.
Catalog ==
  [prod1 |-> [found |-> TRUE, isAvailable |-> TRUE, hasQuantity |-> TRUE,
              quantity |-> 2, hasOptions |-> FALSE, storeType |-> "retail"]]

\* checkInventoryAvailability (products, lines 109-151) for one cart line
\* of a product without options: TRUE when it returns true, FALSE when it
\* throws.
checkInventoryAvailability(productId, quantity) ==
  LET product == Catalog[productId]
  IN IF ~product.found THEN FALSE
     ELSE IF ~product.isAvailable THEN FALSE
     ELSE IF product.storeType # "restaurant" /\ product.hasQuantity
             /\ ~product.hasOptions /\ product.quantity < quantity THEN FALSE
     ELSE TRUE

\* What internal.users.getProfile answers for the session user.
Uids == {"uid_a", "uid_b"}
NoProfile == [found |-> FALSE, piUid |-> "undefined", country |-> "undefined", city |-> "undefined"]
ApprProfiles ==
  {NoProfile} \cup
  [found : {TRUE}, piUid : Uids, country : {"undefined", "EG"},
   city : {"undefined", "Cairo"}]

\* What getStoreForPayout answers for metadata.storeId: null, or the store
\* with its country, its deliveryRegions (absent, or a list) and its
\* isDeliveryRegionsAllowList flag (absent, true or false).
NoStore ==
  [found |-> FALSE, country |-> "undefined", hasRegions |-> FALSE,
   deliveryRegions |-> <<>>, isAllowList |-> "undefined"]
ZoneStores ==
  {NoStore} \cup
  [found : {TRUE}, country : {"EG"}, hasRegions : {TRUE},
   deliveryRegions : {<<>>, <<"Cairo">>}, isAllowList : {"undefined", "true", "false"}] \cup
  [found : {TRUE}, country : {"EG"}, hasRegions : {FALSE},
   deliveryRegions : {<<>>}, isAllowList : {"undefined", "true", "false"}]

\* Lines 126-127: a || b on strings.
OrProfile(a, b) == IF IsFalsy(a) THEN b ELSE a

Includes(seq, x) == \E k \in 1..Len(seq) : seq[k] = x

\* Lines 120-148: the delivery-zone validation.  "pass" when the handler goes
\* on to persist the record, otherwise the error it throws.
DeliveryZone_ignoreDenyList(meta, profile, store) ==
  IF meta.storeId = "undefined" \/ ~store.found THEN "pass"
  ELSE LET userCountry == OrProfile(meta.deliveryCountry, profile.country)
           userCity == OrProfile(meta.deliveryCity, profile.city)
       IN IF IsFalsy(userCountry) \/ IsFalsy(userCity) THEN "update_location"
          ELSE IF store.country # userCountry THEN "country"
          ELSE IF store.hasRegions /\ Len(store.deliveryRegions) > 0
                  /\ ~Includes(store.deliveryRegions, userCity) THEN "city"
          ELSE "pass"

DeliveryZone(meta, profile, store) ==
  IF meta.storeId = "undefined" \/ ~store.found THEN "pass"
  ELSE LET userCountry == OrProfile(meta.deliveryCountry, profile.country)
           userCity == OrProfile(meta.deliveryCity, profile.city)
       IN IF IsFalsy(userCountry) \/ IsFalsy(userCity) THEN "update_location"
          ELSE IF store.country # userCountry THEN "country"
          ELSE IF store.hasRegions /\ Len(store.deliveryRegions) > 0
            THEN LET isAllowed == store.isAllowList # "false"
                     inList == Includes(store.deliveryRegions, userCity)
                 IN IF isAllowed /\ ~inList THEN "city"
                    ELSE IF ~isAllowed /\ inList THEN "city"
                    ELSE "pass"
          ELSE "pass"

\* createPaymentRecord: a PaymentRecord in status approved for the paymentId.
NoPayment == [status |-> "none", txid |-> "none", failureReason |-> "none"]
createPaymentRecord(P, paymentId, userId, amount) ==
  [P EXCEPT ![paymentId] = ApprovedPayment @@ [userId |-> userId, amount |-> amount]]

NoMetadata == [storeId |-> "undefined", deliveryCountry |-> "undefined",
               deliveryCity |-> "undefined", itemQty |-> 0]

IdleAppr ==
  [pc |-> "idle", paymentId |-> "none", user |-> "null",
   amount |-> [given |-> FALSE, value |-> 0], metadata |-> NoMetadata,
   attempt |-> 0, piApiUser |-> "undefined", profile |-> NoProfile,
   store |-> NoStore, created |-> 0, approveCalls |-> 0,
   approveAnswer |-> "none", outcome |-> "none"]


\* Lines 76-78: the handler is entered with its arguments and resolves the
\* session user; without a user it throws.
ApproveInvoke(p, token, amount, meta) ==
  /\ appr.pc = "idle"
  /\ appr' = IF getUser(token) = "null"
       THEN [IdleAppr EXCEPT !.paymentId = p, !.amount = amount, !.metadata = meta,
                             !.pc = "done", !.outcome = "error_auth"]
       ELSE [IdleAppr EXCEPT !.paymentId = p, !.amount = amount, !.metadata = meta,
                             !.user = getUser(token), !.attempt = 1, !.pc = "verify"]
  /\ UNCHANGED <<inv, payouts, scheduled, env, call, payments, provider,
                 reports, orders, conversations, auxVars>>

\* Lines 88-108: one attempt of the identity check.  The identity endpoint
\* answers with the uid behind the bearer credential, or the attempt fails
\* (non-ok status or network error); the third failure throws.
ApproveVerify ==
  /\ appr.pc = "verify"
  /\ \/ \E uid \in Uids :
          appr' = [appr EXCEPT !.piApiUser = uid, !.pc = "profile"]
     \/ appr' = IF appr.attempt = MaxVerifyAttempts
                  THEN [appr EXCEPT !.pc = "done", !.outcome = "error_verify"]
                  ELSE [appr EXCEPT !.attempt = @ + 1]
  /\ UNCHANGED <<inv, payouts, scheduled, env, call, payments, provider,
                 reports, orders, conversations, auxVars>>

\* Line 114: the verified uid against the uid stored on the profile.
UidMatches_anyUid(piApiUser, profile) == TRUE

UidMatches(piApiUser, profile) == piApiUser = profile.piUid

\* Lines 110-120: the profile lookup, the uid cross-check, and the test
\* whether the metadata references a store.
ApproveProfile ==
  /\ appr.pc = "profile"
  /\ \E prof \in ApprProfiles :
       appr' = IF ~prof.found
                 THEN [appr EXCEPT !.pc = "done", !.outcome = "error_profile"]
               ELSE IF ~UidMatches(appr.piApiUser, prof)
                 THEN [appr EXCEPT !.profile = prof, !.pc = "done",
                                   !.outcome = "error_uid"]
               ELSE IF appr.metadata.storeId # "undefined"
                 THEN [appr EXCEPT !.profile = prof, !.pc = "store"]
               ELSE [appr EXCEPT !.profile = prof, !.pc = "create"]
  /\ UNCHANGED <<inv, payouts, scheduled, env, call, payments, provider,
                 reports, orders, conversations, auxVars>>

\* Lines 122-148: the store lookup and the delivery-zone validation.
ApproveZone ==
  /\ appr.pc = "store"
  /\ \E st \in ZoneStores :
       appr' = IF DeliveryZone(appr.metadata, appr.profile, st) = "pass"
                 THEN [appr EXCEPT !.store = st, !.pc = "create"]
                 ELSE [appr EXCEPT !.store = st, !.pc = "done",
                                   !.outcome = "error_zone"]
  /\ UNCHANGED <<inv, payouts, scheduled, env, call, payments, provider,
                 reports, orders, conversations, auxVars>>

\* Lines 151-164: the PaymentRecord is persisted; without an API key the
\* handler returns a mock success.
ApproveCreate ==
  /\ appr.pc = "create"
  /\ payments' = createPaymentRecord(payments, appr.paymentId, appr.user,
                                     AmountOrZero(appr.amount))
  /\ appr' = IF ~env.apiKey
               THEN [appr EXCEPT !.created = @ + 1, !.pc = "done", !.outcome = "mock"]
               ELSE [appr EXCEPT !.created = @ + 1, !.pc = "approve"]
  /\ UNCHANGED <<inv, payouts, scheduled, env, call, provider,
                 reports, orders, conversations, auxVars>>

\* Lines 166-181: the provider's approve endpoint is called; every non-ok
\* answer (the payment being approved already included) is thrown.
ApproveAnswers == {"ok", "already_approved", "error"}
ApproveResult(ans) == IF ans = "ok" THEN "success" ELSE "error_approve"

ApproveCall ==
  /\ appr.pc = "approve"
  /\ \E ans \in ApproveAnswers :
       appr' = [appr EXCEPT !.approveCalls = @ + 1, !.pc = "done",
                            !.approveAnswer = ans,
                            !.outcome = ApproveResult(ans)]
  /\ UNCHANGED <<inv, payouts, scheduled, env, call, payments, provider,
                 reports, orders, conversations, auxVars>>

\* ------------------------------------------------------ dispute controller
Reports == {"r1", "r2"}
NoReport == [found |-> FALSE, status |-> "none", resolution |-> "none",
             storeId |-> "none", orderId |-> "none"]
NoOrder == [found |-> FALSE, status |-> "none", paymentStatus |-> "none",
            totalAmount |-> 0, userId |-> "none", storeId |-> "none",
            driverId |-> "none"]
NoConversation == [found |-> FALSE, isArchived |-> FALSE, participants |-> {}]

\* The order each report is about.
OrderOfReport == [r1 |-> "o1", r2 |-> "o2"]

OrderTotals == {100, 200}

\* process.env.APP_COMMISSION_RATE: unset, empty, or a decimal fraction.
CommissionRateStrings == {"undefined", "", "0.05", "0.1"}

\* Lines 93-94 of resolveReport: (APP_COMMISSION_RATE || '0.05') parsed as
\* a number; the rate is kept in percent.
DefaultCommissionRate == "0.05"
ParsePercent(str) == IF str = "0.1" THEN 10 ELSE 5
AppCommissionPercent(rateString) ==
  ParsePercent(IF IsFalsy(rateString) THEN DefaultCommissionRate ELSE rateString)

\* Line 95: order.totalAmount * (1 - appCommissionRate).
PayoutAmount_fullTotal(totalAmount, rateString) == totalAmount

PayoutAmount(totalAmount, rateString) ==
  (totalAmount * (100 - AppCommissionPercent(rateString))) \div 100

\* validateToken: the session's user, or an error for an unknown session.
validateToken(t) == IF t = "t_unknown" THEN "null" ELSE t

Resolutions == {"refund", "dismiss", "escalate"}

\* scheduler.runAfter(0, refundToCustomer / payoutToStore, ...).
RefundJob(order, orderId) ==
  [op |-> "refundToCustomer", userId |-> order.userId, storeId |-> order.storeId,
   orderId |-> orderId, amount |-> order.totalAmount, delay |-> 0]
PayoutJob(order, orderId, rateString) ==
  [op |-> "payoutToStore", storeId |-> order.storeId, orderId |-> orderId,
   amount |-> PayoutAmount(order.totalAmount, rateString), delay |-> 0]

\* Lines 52-66: the checks that precede every write.  The mutation goes on
\* only for an existing report of a store the caller owns, still open, whose
\* order exists.
ResolveAllowed_anyStatus(token, report, storeOwner, order) ==
  /\ validateToken(token) # "null"
  /\ report.found
  /\ storeOwner # "null" /\ storeOwner = validateToken(token)
  /\ order.found

ResolveAllowed(token, report, storeOwner, order) ==
  /\ validateToken(token) # "null"
  /\ report.found
  /\ storeOwner # "null" /\ storeOwner = validateToken(token)
  /\ report.status = "open"
  /\ order.found

\* Lines 72 and 90: args.note || default text.
ResolutionText(note, default) == IF IsFalsy(note) THEN default ELSE note
Notes == {"undefined", "note"}

\* resolveReport of convex/reports.ts (lines 44-106): one mutation.  A call
\* the checks reject throws and writes nothing.
ResolveReport(token, r, resolution, note) ==
  /\ \E storeOwner \in StoreOwnerAnswers :
       ResolveAllowed(token, reports[r], storeOwner, orders[reports[r].orderId])
  /\ LET o == reports[r].orderId
     IN CASE resolution = "refund" ->
               /\ reports' = [reports EXCEPT ![r].status = "resolved",
                     ![r].resolution = ResolutionText(note, "Refunded by store")]
               /\ orders' = [orders EXCEPT ![o].status = "cancelled",
                                           ![o].paymentStatus = "refunded"]
               /\ scheduled' = scheduled (+) SetToBag({RefundJob(orders[o], o)})
          [] resolution = "dismiss" ->
               /\ reports' = [reports EXCEPT ![r].status = "rejected",
                     ![r].resolution = ResolutionText(note, "Report dismissed by store")]
               /\ scheduled' = scheduled (+)
                     SetToBag({PayoutJob(orders[o], o, env.commissionRate)})
               /\ orders' = [orders EXCEPT ![o].status = "delivered"]
          [] OTHER ->
               UNCHANGED <<reports, orders, scheduled>>
  /\ UNCHANGED <<inv, payouts, env, call, payments, provider, appr, conversations,
                 auxVars>>

\* resolveReport in its other version (lines 49-123): it also sets the
\* order's paymentStatus on the dismiss path and archives the conversation
\* of the order.
ResolveReportArchiving(token, r, resolution, note) ==
  /\ \E storeOwner \in StoreOwnerAnswers :
       ResolveAllowed(token, reports[r], storeOwner, orders[reports[r].orderId])
  /\ LET o == reports[r].orderId
         archived == IF conversations[o].found
                       THEN [conversations EXCEPT ![o].isArchived = TRUE]
                       ELSE conversations
     IN CASE resolution = "refund" ->
               /\ reports' = [reports EXCEPT ![r].status = "resolved",
                     ![r].resolution = ResolutionText(note, "Refunded by store")]
               /\ orders' = [orders EXCEPT ![o].status = "cancelled",
                                           ![o].paymentStatus = "refunded"]
               /\ scheduled' = scheduled (+) SetToBag({RefundJob(orders[o], o)})
               /\ conversations' = archived
          [] resolution = "dismiss" ->
               /\ reports' = [reports EXCEPT ![r].status = "rejected",
                     ![r].resolution = ResolutionText(note, "Report dismissed by store")]
               /\ scheduled' = scheduled (+)
                     SetToBag({PayoutJob(orders[o], o, env.commissionRate)})
               /\ orders' = [orders EXCEPT ![o].status = "delivered",
                                           ![o].paymentStatus = "released"]
               /\ conversations' = archived
          [] OTHER ->
               UNCHANGED <<reports, orders, scheduled, conversations>>
  /\ UNCHANGED <<inv, payouts, env, call, payments, provider, appr, auxVars>>

\* ------------------------------------------- conversations of an order
\* The sessions that call the chat mutations: the store owner, the order's
\* customer, another user, an unknown session.
ChatTokens == {"t_owner", "t_customer", "t_other", "t_unknown"}

\* user._id of the user a session resolves to.
UserIdOf(t) ==
  CASE t = "t_owner" -> "u_owner"
    [] t = "t_customer" -> "u1"
    [] t = "t_other" -> "u_other"
    [] OTHER -> "null"

\* getOrCreateReportConversation (reports.ts lines 107-161), one mutation:
\* the caller must be the order's customer or the store's owner; the
\* conversation of the order is taken out of the archive, or created with
\* the customer and the store owner as participants.
GetOrCreateReportConversation(token, o) ==
  /\ validateToken(token) # "null"
  /\ orders[o].found
  /\ \E storeOwner \in StoreOwnerAnswers :
       /\ storeOwner # "null"
       /\ orders[o].userId = UserIdOf(token) \/ storeOwner = validateToken(token)
       /\ conversations' =
            IF conversations[o].found
              THEN [conversations EXCEPT ![o].isArchived = FALSE]
              ELSE [conversations EXCEPT ![o] =
                      [found |-> TRUE, isArchived |-> FALSE,
                       participants |-> {orders[o].userId, UserIdOf(storeOwner)}]]
  /\ UNCHANGED <<inv, payouts, scheduled, env, call, payments, provider, appr,
                 reports, orders, auxVars>>

\* findOrCreateConversationForOrder (chat.ts lines 60-109), one mutation:
\* the caller must be the store's owner, the order's driver or its customer;
\* an existing conversation is returned as it is, a missing one is created
\* (without isArchived) with the caller and the customer as participants.
FindOrCreateConversationForOrder(token, o) ==
  /\ validateToken(token) # "null"
  /\ orders[o].found
  /\ \E storeOwner \in StoreOwnerAnswers :
       \/ storeOwner # "null" /\ storeOwner = validateToken(token)
       \/ orders[o].driverId = UserIdOf(token)
       \/ orders[o].userId = UserIdOf(token)
  /\ conversations' =
       IF conversations[o].found
         THEN conversations
         ELSE [conversations EXCEPT ![o] =
                 [found |-> TRUE, isArchived |-> FALSE,
                  participants |-> {UserIdOf(token), orders[o].userId}]]
  /\ UNCHANGED <<inv, payouts, scheduled, env, call, payments, provider, appr,
                 reports, orders, auxVars>>

\* Lines 495 and 520: every conversation named must exist and have the
\* caller among its participants, or the mutation throws.
MayTouchConversations(token, os) ==
  /\ validateToken(token) # "null"
  /\ \A o \in os : /\ conversations[o].found
                    /\ UserIdOf(token) \in conversations[o].participants

\* archiveConversations (chat.ts lines 511-531), one mutation over the
\* conversations of the orders os.
ArchiveConversations(token, os) ==
  /\ MayTouchConversations(token, os)
  /\ conversations' = [o \in Orders |->
        IF o \in os THEN [conversations[o] EXCEPT !.isArchived = TRUE]
                    ELSE conversations[o]]
  /\ UNCHANGED <<inv, payouts, scheduled, env, call, payments, provider, appr,
                 reports, orders, auxVars>>

\* deleteConversations (chat.ts lines 486-509), one mutation over the
\* conversations of the orders os.
DeleteConversations(token, os) ==
  /\ MayTouchConversations(token, os)
  /\ conversations' = [o \in Orders |->
        IF o \in os THEN NoConversation ELSE conversations[o]]
  /\ UNCHANGED <<inv, payouts, scheduled, env, call, payments, provider, appr,
                 reports, orders, auxVars>>

\* ------------------------------------------------- webhook verification
\* Strings that the handler takes apart are sequences of one-character
\* strings.
HexChars ==
  {"0", "1", "2", "3", "4", "5", "6", "7", "8", "9",
   "a", "b", "c", "d", "e", "f", "A", "B", "C", "D", "E", "F"}

HexValue ==
  ("0" :> 0) @@ ("1" :> 1) @@ ("2" :> 2) @@ ("3" :> 3) @@ ("4" :> 4) @@
  ("5" :> 5) @@ ("6" :> 6) @@ ("7" :> 7) @@ ("8" :> 8) @@ ("9" :> 9) @@
  ("a" :> 10) @@ ("b" :> 11) @@ ("c" :> 12) @@ ("d" :> 13) @@ ("e" :> 14) @@
  ("f" :> 15) @@ ("A" :> 10) @@ ("B" :> 11) @@ ("C" :> 12) @@ ("D" :> 13) @@
  ("E" :> 14) @@ ("F" :> 15)

\* Buffer.from(s, 'hex'): two digits make one byte; decoding stops at the
\* first pair that is not two hex digits, and a trailing single character is
\* dropped.
RECURSIVE BufferFromHex(_)
BufferFromHex(s) ==
  IF Len(s) < 2 \/ s[1] \notin HexChars \/ s[2] \notin HexChars
  THEN << >>
  ELSE <<16 * HexValue[s[1]] + HexValue[s[2]]>> \o BufferFromHex(SubSeq(s, 3, Len(s)))

\* The text 'sha256='.
Sha256Prefix == <<"s", "h", "a", "2", "5", "6", "=">>

\* s.replace(pat, ''): the first occurrence of pat, wherever it is, is
\* removed; a string without pat is returned as it is.
Occurrences(s, pat) ==
  {i \in 1..(Len(s) - Len(pat) + 1) : SubSeq(s, i, i + Len(pat) - 1) = pat}

Replace(s, pat) ==
  IF Occurrences(s, pat) = {}
  THEN s
  ELSE LET i == CHOOSE j \in Occurrences(s, pat) :
                   \A k \in Occurrences(s, pat) : j <= k
       IN  SubSeq(s, 1, i - 1) \o SubSeq(s, i + Len(pat), Len(s))

\* PI_WEBHOOK_SECRET: not set, or one of two secrets.
WebhookSecrets == {"k1", "k2"}
SecretSettings == {"undefined"} \cup WebhookSecrets
RawBodies == {"", "b1", "b2"}

\* crypto.createHmac('sha256', secret).update(rawBody).digest('hex'): a
\* lower-case hex string, here shortened to two bytes, different for each
\* (secret, body) at hand.
HmacSha256Hex(secret, rawBody) ==
  CASE secret = "k1" /\ rawBody = ""   -> <<"5", "b", "e", "9">>
    [] secret = "k1" /\ rawBody = "b1" -> <<"a", "3", "f", "1">>
    [] secret = "k1" /\ rawBody = "b2" -> <<"0", "7", "c", "2">>
    [] secret = "k2" /\ rawBody = ""   -> <<"d", "4", "1", "0">>
    [] secret = "k2" /\ rawBody = "b1" -> <<"6", "e", "8", "a">>
    [] OTHER                           -> <<"1", "f", "9", "d">>

\* crypto.timingSafeEqual(a, b) throws when the byte lengths differ.
TimingSafeEqualThrows(a, b) == Len(a) # Len(b)
TimingSafeEqual(a, b) == a = b

\* Lines 43-60 of the handler: the comparison inside try, FALSE from catch.
SignatureValid(signature, secret, rawBody) ==
  LET expectedSignature == HmacSha256Hex(secret, rawBody)
      providedSignature == Replace(signature, Sha256Prefix)
      expected == BufferFromHex(expectedSignature)
      provided == BufferFromHex(providedSignature)
  IN  IF TimingSafeEqualThrows(expected, provided)
      THEN FALSE
      ELSE TimingSafeEqual(expected, provided)

\* The x_pi_signature header: absent, or a text.
NoSignature == [given |-> FALSE, text |-> << >>]

UpperCase ==
  [c \in {"0", "1", "2", "3", "4", "5", "6", "7", "8", "9",
          "a", "b", "c", "d", "e", "f"} |->
     CASE c = "a" -> "A" [] c = "b" -> "B" [] c = "c" -> "C"
       [] c = "d" -> "D" [] c = "e" -> "E" [] c = "f" -> "F" [] OTHER -> c]

\* The signature texts tried: every digest at hand and some damaged forms
\* of it (cut short, in upper case, empty), bare or prefixed, alone or
\* followed by further characters.
SignatureCores ==
  LET digests == {HmacSha256Hex(k, b) : k \in WebhookSecrets, b \in RawBodies}
  IN  digests
        \cup {SubSeq(d, 1, 2) : d \in digests}
        \cup {[i \in 1..Len(d) |-> UpperCase[d[i]]] : d \in digests}
        \cup {<< >>}

SignatureTexts ==
  {pre \o core \o post :
     pre \in {<< >>, Sha256Prefix, Sha256Prefix \o Sha256Prefix},
     core \in SignatureCores,
     post \in {<< >>, <<"0">>, <<"z", "z">>, <<"0", "0">>, Sha256Prefix}}

SignatureHeaders ==
  {NoSignature} \cup {[given |-> TRUE, text |-> t] : t \in SignatureTexts}

IdleHook ==
  [pc |-> "idle", secret |-> "undefined", signature |-> NoSignature,
   rawBody |-> "", isValid |-> FALSE, body |-> ""]

\* verifyPiWebhook (lines 22-62), one request from arrival to answer.
\* !signature holds for an absent header and for the empty text.
VerifyPiWebhook(signature, rawBody) ==
  /\ hook.pc = "idle"
  /\ hook' = [hook EXCEPT
        !.pc = "done",
        !.signature = signature,
        !.rawBody = rawBody,
        !.body = rawBody,
        !.isValid =
           IF ~signature.given \/ signature.text = << >> THEN FALSE
           ELSE IF hook.secret = "undefined" THEN TRUE
           ELSE SignatureValid(signature.text, hook.secret, rawBody)]
  /\ UNCHANGED <<inv, payouts, scheduled, env, call, payments, provider,
                 appr, reports, orders, conversations, custody>>

\* ---------------------------------------------------- custodial account
\* The chain submission of lines 250-281 and 549-606 in its awaited steps:
\* the memo id, loadAccount, submitTransaction.
\* The custodial account has a sequence number on the chain; a transaction
\* is built from the sequence number that loadAccount returned and is
\* accepted only while this is still the account's sequence number.

\* Date.now() at the moments considered (ms); the first and the last agree
\* in their last five digits.
ClockValues == <<1000012345, 1000012346, 1100012345>>

\* The text of the order ids.
OrderIdText ==
  [o1 |-> <<"k", "d", "7", "a", "q", "0", "0", "1">>,
   o2 |-> <<"k", "d", "7", "a", "q", "0", "0", "2">>]

\* s.slice(-n): the last n characters, the whole text when it is shorter.
SliceLast(s, n) == SubSeq(s, IF Len(s) > n THEN Len(s) - n + 1 ELSE 1, Len(s))

\* Date.now().toString().slice(-5): the last five digits, kept as a number.
LastFiveDigits(ms) == ms % 100000

\* Lines 252 and 551: `ref-${orderId.slice(-6)}-${Date.now()...slice(-5)}`
\* and `pay-${orderId.slice(-6)}-${Date.now()...slice(-5)}`.
MemoId(op, orderId, ms) ==
  [prefix |-> IF op = "refundToCustomer" THEN "ref" ELSE "pay",
   order  |-> SliceLast(OrderIdText[orderId], 6),
   stamp  |-> LastFiveDigits(ms)]

NoMemo == [prefix |-> "none", order |-> << >>, stamp |-> 0]

\* What an invocation holds of its transfer: the memo id, the account
\* sequence number it loaded, and how the submission ended.
NoTransfer == [stage |-> "none", memo |-> NoMemo, loadedSeq |-> 0, outcome |-> "none"]

IdleCustody ==
  [seq |-> 0, clock |-> 1, transfer |-> [i \in Slots |-> NoTransfer]]

Now == ClockValues[custody.clock]

\* Time passes.
Tick ==
  /\ custody.clock < Len(ClockValues)
  /\ custody' = [custody EXCEPT !.clock = @ + 1]
  /\ UNCHANGED <<inv, payouts, scheduled, env, call, payments, provider,
                 appr, reports, orders, conversations, hook>>

\* Lines 252 and 551: the memo id is made, from the clock as it is then, in
\* the handler's run that follows the last lookup, when this run goes on to
\* the submission.
MemoMade(i) ==
  custody' =
    IF inv'[i].pc = "submit"
      THEN [custody EXCEPT !.transfer[i] =
              [stage |-> "memo",
               memo |-> MemoId(inv[i].op, inv[i].orderId, Now),
               loadedSeq |-> 0, outcome |-> "none"]]
      ELSE custody

PayoutLookupMemo(i) ==
  /\ PayoutLookupInv(i)
  /\ MemoMade(i)
  /\ UNCHANGED <<payouts, scheduled, env, call, payments, provider,
                 appr, reports, orders, conversations, hook>>

RefundLookupMemo(i) ==
  /\ RefundLookupInv(i)
  /\ MemoMade(i)
  /\ UNCHANGED <<payouts, scheduled, env, call, payments, provider,
                 appr, reports, orders, conversations, hook>>

\* Lines 260-263 and 569-580: loadAccount answers, some time after the memo
\* id was made, with the account and the sequence number it has by then, or
\* fails.
LoadAnswers == {"ok", "loadfail"}

LoadAccount(i) ==
  /\ inv[i].pc = "submit"
  /\ custody.transfer[i].stage = "memo"
  /\ \E ans \in LoadAnswers :
       IF ans = "ok"
       THEN /\ custody' = [custody EXCEPT !.transfer[i].stage = "loaded",
                                          !.transfer[i].loadedSeq = custody.seq]
            /\ UNCHANGED inv
       ELSE /\ custody' = [custody EXCEPT !.transfer[i].stage = "failed",
                                          !.transfer[i].outcome = "loadfail"]
            /\ inv' = [inv EXCEPT ![i] =
                 [@ EXCEPT !.pc = "finalize", !.chain = "loadfail",
                           !.fin = "failed", !.finReason = "chain error"]]
  /\ UNCHANGED <<payouts, scheduled, env, call, payments, provider,
                 appr, reports, orders, conversations, hook>>

\* Lines 265-281 and 582-606: the transaction is built from the loaded
\* account, signed and submitted.  The chain rejects it when the account's
\* sequence number has moved since it was loaded; otherwise it accepts it
\* (and the sequence number moves on) or rejects it for another reason.
SubmitAnswers == {"accepted", "rejected"}

SubmitTransaction(i) ==
  /\ inv[i].pc = "submit"
  /\ custody.transfer[i].stage = "loaded"
  /\ \E ans \in SubmitAnswers :
       LET outcome == IF custody.transfer[i].loadedSeq # custody.seq
                        THEN "bad_seq" ELSE ans
       IN  /\ custody' = [custody EXCEPT
                 !.seq = IF outcome = "accepted" THEN @ + 1 ELSE @,
                 !.transfer[i].stage = "submitted",
                 !.transfer[i].outcome = outcome]
           /\ inv' = [inv EXCEPT ![i] =
                IF outcome = "accepted"
                  THEN [@ EXCEPT !.pc = "finalize", !.chain = "accepted",
                                 !.fin = SuccessStatus, !.txid = i]
                  ELSE [@ EXCEPT !.pc = "finalize", !.chain = "rejected",
                                 !.fin = "failed", !.finReason = "chain error"]]
  /\ UNCHANGED <<payouts, scheduled, env, call, payments, provider,
                 appr, reports, orders, conversations, hook>>

InitAuxIdle ==
  /\ hook = IdleHook
  /\ custody = IdleCustody

InitOthersIdle ==
  /\ InitAuxIdle
  /\ appr = IdleAppr
  /\ reports = [r \in Reports |-> NoReport]
  /\ orders = [o \in Orders |-> NoOrder]
  /\ conversations = [o \in Orders |-> NoConversation]

\* -------------------------------------------------------- payout side spec
Envs == [apiKey : BOOLEAN, seed : BOOLEAN]

InitPayoutSide ==
  /\ inv = [i \in Slots |-> IdleInv]
  /\ payouts = [i \in Slots |-> NoPayout]
  /\ scheduled = EmptyBag

InitPaySideIdle ==
  /\ call = [i \in Calls |-> IdleCall]
  /\ payments = [p \in Payments |-> ApprovedPayment]
  /\ provider = [p \in Payments |-> FreshProvider("user_to_app", FALSE, "none")]

Init ==
  /\ InitPayoutSide
  /\ InitPaySideIdle
  /\ InitOthersIdle
  /\ env \in Envs

Next ==
  \/ \E i \in Slots, op \in {"payoutToStore", "refundToCustomer"},
        s \in Stores, o \in Orders, a \in Amounts : Invoke(i, op, s, o, a)
  \/ \E i \in Slots : Start(i)
  \/ \E i \in Slots : PayoutLookup(i)
  \/ \E i \in Slots : RefundLookup(i)
  \/ \E i \in Slots : PayoutSchedule(i)
  \/ \E i \in Slots : Submit(i)
  \/ \E i \in Slots : Finalize(i)
  \/ \E i \in Slots : Crash(i)
  \/ \E i \in Slots, t \in Tokens, s \in Stores, o \in Orders, a \in Amounts :
        RetryFailedPayout(i, t, s, o, a)
  \/ \E i \in Slots : RetryStoreLookup(i)
  \/ \E i \in Slots : RetryCheck(i)
  \/ \E i \in Slots : \E job \in BagToSet(scheduled) : RunScheduled(i, job)

Spec == Init /\ [][Next]_vars

\* Store payouts and their scheduled re-executions, every invocation running
\* on to its return: a step that can be taken is taken eventually.
RetryNext ==
  \/ \E i \in Slots, s \in Stores, o \in Orders, a \in Amounts :
        Invoke(i, "payoutToStore", s, o, a)
  \/ \E i \in Slots : Start(i)
  \/ \E i \in Slots : PayoutLookup(i)
  \/ \E i \in Slots : PayoutSchedule(i)
  \/ \E i \in Slots : Submit(i)
  \/ \E i \in Slots : Finalize(i)
  \/ \E i \in Slots : \E job \in BagToSet(scheduled) : RunScheduled(i, job)

RetrySpec == Init /\ [][RetryNext]_vars /\ WF_vars(RetryNext)

\* One direct payoutToStore invocation (the first slot), every later
\* invocation a retryFailedPayout call with an amount of the caller's choice.
RetryAmounts == {100, 250}

ManualRetryNext ==
  \/ \E s \in Stores, o \in Orders, a \in Amounts :
        Invoke(1, "payoutToStore", s, o, a)
  \/ \E i \in Slots \ {1}, t \in Tokens, s \in Stores, o \in Orders,
        a \in RetryAmounts : RetryFailedPayout(i, t, s, o, a)
  \/ \E i \in Slots : RetryStoreLookup(i)
  \/ \E i \in Slots : RetryCheck(i)
  \/ \E i \in Slots : Start(i)
  \/ \E i \in Slots : PayoutLookup(i)
  \/ \E i \in Slots : PayoutSchedule(i)
  \/ \E i \in Slots : Submit(i)
  \/ \E i \in Slots : Finalize(i)

ManualRetrySpec == Init /\ [][ManualRetryNext]_vars

\* Payouts, refunds and the scheduled re-executions, no process stopping, each
\* awaited call after the start step answering or rejecting.
RejectNext ==
  \/ \E i \in Slots, op \in {"payoutToStore", "refundToCustomer"},
        s \in Stores, o \in Orders, a \in Amounts : Invoke(i, op, s, o, a)
  \/ \E i \in Slots : Start(i)
  \/ \E i \in Slots : PayoutLookup(i)
  \/ \E i \in Slots : RefundLookup(i)
  \/ \E i \in Slots : LookupRejects(i)
  \/ \E i \in Slots : PayoutSchedule(i)
  \/ \E i \in Slots : ScheduleRejects(i)
  \/ \E i \in Slots : Submit(i)
  \/ \E i \in Slots : Finalize(i)
  \/ \E i \in Slots : FinalizeRejects(i)
  \/ \E i \in Slots : FinalizeInCatch(i)
  \/ \E i \in Slots : \E job \in BagToSet(scheduled) : RunScheduled(i, job)

RejectSpec == Init /\ [][RejectNext]_vars

\* ------------------------------------------------------- payment side spec
TxidArgs == {"none", "tx_arg"}

\* Every payment starts approved locally (approvePiPayment has run); at the
\* provider it is a user-to-app or app-to-user payment whose chain
\* transaction may or may not be verified yet.
PayInit ==
  /\ InitPayoutSide
  /\ InitOthersIdle
  /\ env \in [apiKey : BOOLEAN, seed : {TRUE}]
  /\ call = [i \in Calls |-> IdleCall]
  /\ payments = [p \in Payments |-> ApprovedPayment]
  /\ provider \in [Payments ->
        {FreshProvider(d, v, t) : d \in {"user_to_app", "app_to_user"},
                                  v \in BOOLEAN, t \in {"none", "tx_chain"}}]

PayNext ==
  \/ \E i \in Calls, p \in Payments, t \in TxidArgs : CompleteInvoke(i, p, t)
  \/ \E i \in Calls : CRead(i)
  \/ \E i \in Calls : CMockSet(i)
  \/ \E i \in Calls : CMockProcess(i)
  \/ \E i \in Calls : CComplete(i)
  \/ \E i \in Calls : CFailComplete(i)
  \/ \E i \in Calls : CFetch(i)
  \/ \E i \in Calls : CSetCompleted(i)
  \/ \E i \in Calls : CProcess(i)
  \/ \E i \in Calls : CFailPost(i)
  \/ \E p \in Payments : ReportCancelled(p)
  \/ \E i \in Calls, p \in Payments : IncompleteInvoke(i, p)
  \/ \E i \in Calls : HMock(i)
  \/ \E i \in Calls : HFetch(i)
  \/ \E i \in Calls : HComplete(i)
  \/ \E i \in Calls : HCancel(i)
  \/ \E i \in Calls : HSetCompleted(i)
  \/ \E i \in Calls : HProcess(i)
  \/ \E i \in Calls : HSetCancelled(i)
  \/ \E i \in Calls : HFail(i)

PaySpec == PayInit /\ [][PayNext]_vars

\* completePiPayment calls alone (a webhook-triggered call and a direct
\* client call), with nothing else touching the payment.
CompleteNext ==
  \/ \E i \in Calls, p \in Payments, t \in TxidArgs : CompleteInvoke(i, p, t)
  \/ \E i \in Calls : CRead(i)
  \/ \E i \in Calls : CMockSet(i)
  \/ \E i \in Calls : CMockProcess(i)
  \/ \E i \in Calls : CComplete(i)
  \/ \E i \in Calls : CFailComplete(i)
  \/ \E i \in Calls : CFetch(i)
  \/ \E i \in Calls : CSetCompleted(i)
  \/ \E i \in Calls : CProcess(i)
  \/ \E i \in Calls : CFailPost(i)

CompleteSpec == PayInit /\ [][CompleteNext]_vars


\* ----------------------------------------------------------- approval spec
\* No PaymentRecord exists yet; one approvePiPayment invocation runs.
ApproveInit ==
  /\ InitPayoutSide
  /\ env \in [apiKey : BOOLEAN, seed : {TRUE}]
  /\ call = [i \in Calls |-> IdleCall]
  /\ payments = [p \in Payments |-> NoPayment]
  /\ provider = [p \in Payments |-> FreshProvider("user_to_app", FALSE, "none")]
  /\ InitOthersIdle

ApproveNext ==
  \/ \E p \in Payments, t \in SessionTokens, a \in AmountArgs, m \in Metadatas :
        ApproveInvoke(p, t, a, m)
  \/ ApproveVerify
  \/ ApproveProfile
  \/ ApproveZone
  \/ ApproveCreate
  \/ ApproveCall

ApproveSpec == ApproveInit /\ [][ApproveNext]_vars


\* ------------------------------------------------------------ dispute spec
\* Two open reports, each about its own order of store s1; the orders'
\* totals, the commission setting and the presence of a dispute
\* conversation vary.
OpenReport(r) ==
  [found |-> TRUE, status |-> "open", resolution |-> "none",
   storeId |-> "s1", orderId |-> OrderOfReport[r]]

DisputeInit ==
  /\ InitPayoutSide
  /\ InitAuxIdle
  /\ InitPaySideIdle
  /\ appr = IdleAppr
  /\ env \in [apiKey : {TRUE}, seed : {TRUE}, commissionRate : CommissionRateStrings]
  /\ reports = [r \in Reports |-> OpenReport(r)]
  /\ orders \in [Orders ->
        [found : {TRUE}, status : {"disputed"}, paymentStatus : {"held"},
         totalAmount : OrderTotals, userId : {"u1"}, storeId : {"s1"},
         driverId : {"undefined", "u_other"}]]
  /\ conversations \in [Orders ->
        {NoConversation,
         [found |-> TRUE, isArchived |-> FALSE, participants |-> {"u1", "u_owner"}]}]

DisputeNext ==
  \/ \E t \in Tokens, r \in Reports, res \in Resolutions, n \in Notes :
        ResolveReport(t, r, res, n)
  \/ \E t \in Tokens, r \in Reports, res \in Resolutions, n \in Notes :
        ResolveReportArchiving(t, r, res, n)
  \/ \E t \in ChatTokens, o \in Orders : GetOrCreateReportConversation(t, o)
  \/ \E t \in ChatTokens, o \in Orders : FindOrCreateConversationForOrder(t, o)
  \/ \E t \in ChatTokens, os \in SUBSET Orders : ArchiveConversations(t, os)
  \/ \E t \in ChatTokens, os \in SUBSET Orders : DeleteConversations(t, os)

DisputeSpec == DisputeInit /\ [][DisputeNext]_vars

\* ------------------------------------------------------------ webhook spec
\* One webhook request arrives under a fixed setting of PI_WEBHOOK_SECRET.
WebhookInit ==
  /\ InitPayoutSide
  /\ InitPaySideIdle
  /\ env = [apiKey |-> TRUE, seed |-> TRUE]
  /\ appr = IdleAppr
  /\ reports = [r \in Reports |-> NoReport]
  /\ orders = [o \in Orders |-> NoOrder]
  /\ conversations = [o \in Orders |-> NoConversation]
  /\ custody = IdleCustody
  /\ hook \in {[IdleHook EXCEPT !.secret = k] : k \in SecretSettings}

WebhookNext ==
  \E sig \in SignatureHeaders, b \in RawBodies : VerifyPiWebhook(sig, b)

WebhookSpec == WebhookInit /\ [][WebhookNext]_vars

\* ---------------------------------------------------------- custody spec
\* Payouts and refunds with the chain submission in its awaited steps, the
\* configuration complete, time passing.
CustodyInit ==
  /\ InitPayoutSide
  /\ InitPaySideIdle
  /\ InitOthersIdle
  /\ env = [apiKey |-> TRUE, seed |-> TRUE]

CustodyNext ==
  \/ \E i \in Slots, op \in {"payoutToStore", "refundToCustomer"},
        s \in Stores, o \in Orders, a \in Amounts : Invoke(i, op, s, o, a)
  \/ \E i \in Slots : Start(i)
  \/ \E i \in Slots : PayoutLookupMemo(i)
  \/ \E i \in Slots : RefundLookupMemo(i)
  \/ \E i \in Slots : PayoutSchedule(i)
  \/ \E i \in Slots : LoadAccount(i)
  \/ \E i \in Slots : SubmitTransaction(i)
  \/ \E i \in Slots : Finalize(i)
  \/ Tick

CustodySpec == CustodyInit /\ [][CustodyNext]_vars

\* ================================================================= claims
Keys == Stores \X Orders

SlotsOf(k) == {i \in Slots : inv[i].storeId = k[1] /\ inv[i].orderId = k[2]}
RecordsOf(k) == SameKey(payouts, k[1], k[2])
Submissions(k) == {i \in SlotsOf(k) : inv[i].chain \in {"accepted", "rejected"}}
CompletedOf(k) == {r \in RecordsOf(k) : payouts[r].status = "completed"}
InProgressOf(k) == {r \in RecordsOf(k) : payouts[r].status = "in_progress"}

\* All invocations for key k are payoutToStore calls that have returned, and
\* none met a missing store, a missing wallet, a missing configuration or a
\* chain error.
BenignPayoutRun(k) ==
  \A i \in SlotsOf(k) :
     /\ inv[i].op = "payoutToStore"
     /\ inv[i].pc = "done"
     /\ inv[i].finReason = "none"
     /\ inv[i].chain \in {"none", "accepted"}

\* C1: when N >= 2 payoutToStore invocations for one (storeId, orderId) have
\* all returned, in any interleaving of their steps, with the wallet linked
\* and the chain accepting, exactly one chain submission was made and exactly
\* one PayoutRecord of that pair is completed.
C1_ExactlyOneDisbursement ==
  \A k \in Keys :
     (Cardinality(SlotsOf(k)) >= 2 /\ BenignPayoutRun(k))
        => /\ Cardinality(Submissions(k)) = 1
           /\ Cardinality(CompletedOf(k)) = 1

C1_Witness ==
  \E k \in Keys :
     /\ Cardinality(SlotsOf(k)) >= 2
     /\ BenignPayoutRun(k)
     /\ \E i \in SlotsOf(k) : inv[i].startStatus = "in_progress"
     /\ \E i \in SlotsOf(k) : inv[i].chain = "accepted"

\* C2: in every reachable state each (recipient, orderId) pair has at most
\* one completed PayoutRecord and at most one in_progress PayoutRecord.
C2_AtMostOneCompletedAndInProgress ==
  \A k \in Keys :
     /\ Cardinality(CompletedOf(k)) <= 1
     /\ Cardinality(InProgressOf(k)) <= 1

\* A second attempt for a pair whose first attempt ended failed or pending
\* has completed.
C2_Witness ==
  \E k \in Keys :
     /\ Cardinality(CompletedOf(k)) = 1
     /\ \E r \in RecordsOf(k) : payouts[r].status \in {"failed", "pending"}

\* An invocation answered already_completed has returned success with the
\* completed record's transaction id and has done nothing else.
C8_State ==
  \A i \in Slots :
     inv[i].startStatus = "already_completed"
       => /\ inv[i].pc = "done"
          /\ inv[i].result.success
          /\ payouts[inv[i].blockedBy].status = "completed"
          /\ inv[i].result.txid = payouts[inv[i].blockedBy].txid
          /\ inv[i].result.txid # 0
          /\ inv[i].chain = "none"
          /\ inv[i].nSched = 0
          /\ inv[i].finalized = 0
          /\ payouts[i] = NoPayout

\* The start step of an invocation whose pair has a completed record changes
\* neither the ledger nor the scheduler.
C8_Step ==
  \A i \in Slots :
     (inv[i].pc = "start" /\ inv'[i] # inv[i]
        /\ CompletedOf(<<inv[i].storeId, inv[i].orderId>>) # {})
        => (payouts' = payouts /\ scheduled' = scheduled)

\* C8: an invocation of payoutToStore or refundToCustomer whose pair already
\* has a completed PayoutRecord returns success with that record's
\* transaction id, makes no chain submission, schedules nothing, and creates
\* or modifies no PayoutRecord.
C8_AlreadyCompletedShortCircuit == [](C8_State) /\ [][C8_Step]_vars

C8_Witness ==
  \E i \in Slots : /\ inv[i].startStatus = "already_completed"
                   /\ inv[i].op \in {"payoutToStore", "refundToCustomer"}
                   /\ inv[i].pc = "done"
                   /\ inv[i].result.txid = payouts[inv[i].blockedBy].txid

\* A payoutToStore invocation answered in_progress has returned failure and
\* has done nothing else.
C9_State ==
  \A i \in Slots :
     (inv[i].op = "payoutToStore" /\ inv[i].startStatus = "in_progress")
       => /\ inv[i].pc = "done"
          /\ ~inv[i].result.success
          /\ inv[i].result.reason = "Payout is currently in progress. Please wait."
          /\ inv[i].chain = "none"
          /\ inv[i].nSched = 0
          /\ inv[i].finalized = 0
          /\ payouts[i] = NoPayout

\* The start step of a payoutToStore invocation whose pair has an in_progress
\* record changes neither the ledger nor the scheduler.
C9_Step ==
  \A i \in Slots :
     (inv[i].pc = "start" /\ inv'[i] # inv[i] /\ inv[i].op = "payoutToStore"
        /\ InProgressOf(<<inv[i].storeId, inv[i].orderId>>) # {}
        /\ CompletedOf(<<inv[i].storeId, inv[i].orderId>>) = {})
        => (payouts' = payouts /\ scheduled' = scheduled)

\* C9: a payoutToStore invocation that finds an in_progress PayoutRecord for
\* its pair returns success=false, creates no second record, leaves the
\* existing record unchanged, submits no transfer and schedules no retry.
C9_InProgressRejection == [](C9_State) /\ [][C9_Step]_vars

C9_Witness ==
  \E i \in Slots : /\ inv[i].op = "payoutToStore"
                   /\ inv[i].startStatus = "in_progress"
                   /\ inv[i].pc = "done"
                   /\ payouts[inv[i].blockedBy].status = "in_progress"

\* C10: an invocation's start step is answered in_progress or
\* already_completed only on account of a record of its own direction (a
\* refund by a refund's record, a store payout by a store payout's record).
\* Record r was created by the invocation in slot r.
C10_GatePerDirection ==
  \A i \in Slots :
     inv[i].blockedBy # 0 => inv[inv[i].blockedBy].op = inv[i].op

CompleteCalls(p) ==
  {i \in Calls : call[i].op = "completePiPayment" /\ call[i].paymentId = p}

\* C3: for a paymentId whose completion the provider accepts, the
\* completePiPayment calls made with it, one after the other or overlapping,
\* issue at most one call to the provider's complete endpoint.
C3_AtMostOneCompleteCall ==
  \A p \in Payments :
     (\A i \in CompleteCalls(p) : call[i].calledComplete => call[i].provOK)
        => Cardinality({i \in CompleteCalls(p) : call[i].calledComplete}) <= 1

\* C4: when two overlapping completePiPayment calls for one paymentId have
\* both returned and the provider completed the payment for at least one of
\* them, the PaymentRecord has status completed.
C4_OverlappingCallsConverge ==
  \A p \in Payments : \A i, j \in CompleteCalls(p) :
     (/\ i # j
      /\ call[i].pc = "done" /\ call[j].pc = "done"
      /\ call[i].overlap \/ call[j].overlap
      /\ call[i].provOK \/ call[j].provOK)
        => payments[p].status = "completed"

\* C5: once a PaymentRecord has status completed, no step of the core changes
\* its status.
C5_CompletedIsTerminal ==
  [][\A p \in Payments :
        payments[p].status = "completed" => payments'[p].status = "completed"]_vars

\* C6: when a completePiPayment call whose provider complete call succeeded
\* and which set the record to completed returns after its
\* processCompletedPayment step failed, the record has status completed.
C6_FulfillmentFailureKeepsCompleted ==
  [][\A i \in Calls :
        (/\ call[i].op = "completePiPayment"
         /\ call[i].pc # "done" /\ call'[i].pc = "done"
         /\ call[i].provOK /\ call[i].wroteCompleted /\ call[i].processFailed)
           => payments'[call[i].paymentId].status = "completed"]_vars

\* C7: a PaymentRecord has status completed only if the provider completed
\* that payment.
C7_CompletedOnlyIfProviderConfirmed ==
  \A p \in Payments :
     payments[p].status = "completed" => provider[p].completed

\* ------------------------------------------------------------ approval flow
\* The invocation has persisted a PaymentRecord or called the approve
\* endpoint.
ApprovalActed ==
  \/ appr.created > 0
  \/ appr.approveCalls > 0
  \/ \E p \in Payments : payments[p].status # "none"

\* C11: approvePiPayment writes a PaymentRecord and calls the provider's
\* approve endpoint only if the session user was resolved, the credential was
\* verified within at most 3 identity-endpoint attempts and the verified uid
\* equals the uid on the user's profile; a call stopped by one of these gates
\* (three failed attempts included) fails with no PaymentRecord and no
\* approve call.
C11_ApprovalGatesFailClosed ==
  /\ ApprovalActed =>
       /\ appr.user # "null"
       /\ appr.attempt \in 1..3
       /\ appr.piApiUser # "undefined"
       /\ appr.profile.found
       /\ appr.piApiUser = appr.profile.piUid
  /\ appr.attempt <= 3
  /\ appr.outcome \in {"error_auth", "error_verify", "error_profile", "error_uid"} =>
       ~ApprovalActed
  /\ appr.approveCalls > 0 => appr.created > 0

\* An approval that went through after two failed verification attempts.
C11_Witness ==
  /\ appr.pc = "done" /\ appr.outcome = "success"
  /\ appr.attempt = 3 /\ appr.created = 1 /\ appr.approveCalls = 1

\* C12: approvePiPayment rejects every request whose claimed amount is absent
\* or not positive: no PaymentRecord with amount <= 0 exists and no approve
\* call is made for such a request.
C12_NonPositiveAmountRejected ==
  /\ \A p \in Payments : payments[p].status # "none" => payments[p].amount > 0
  /\ AmountOrZero(appr.amount) <= 0 => ~ApprovalActed

\* C13: when the metadata lists inventory items and the requested quantity
\* of an item exceeds the available quantity, the approval fails, no
\* PaymentRecord is created and no approve call is made.
C13_StockCheckedBeforePersisting ==
  (appr.pc # "idle" /\ appr.metadata.itemQty > 0
     /\ ~checkInventoryAvailability("prod1", appr.metadata.itemQty)) =>
       ~ApprovalActed

\* The invocation has been through the delivery-zone validation for a store
\* that exists.
ZoneDecided ==
  /\ appr.metadata.storeId # "undefined"
  /\ appr.store.found
  /\ appr.pc \in {"create", "approve", "done"}
  /\ appr.outcome \notin {"error_auth", "error_verify", "error_profile", "error_uid"}

ZonePassed == ZoneDecided /\ appr.outcome # "error_zone"

DestinationCountry ==
  IF appr.metadata.deliveryCountry \in {"undefined", ""}
    THEN appr.profile.country ELSE appr.metadata.deliveryCountry

DestinationCity ==
  IF appr.metadata.deliveryCity \in {"undefined", ""}
    THEN appr.profile.city ELSE appr.metadata.deliveryCity

\* The region rule: with a non-empty deliveryRegions list the city is in the
\* list of an allow-list store (the default) or not in the list of a
\* deny-list store.
RegionRule ==
  LET listed == \E k \in 1..Len(appr.store.deliveryRegions) :
                   appr.store.deliveryRegions[k] = DestinationCity
  IN (appr.store.hasRegions /\ appr.store.deliveryRegions # <<>>) =>
       IF appr.store.isAllowList = "false" THEN ~listed ELSE listed

\* C14 as stated: the gate passes if and only if the destination country
\* equals the store's country and the region rule holds; on rejection no
\* PaymentRecord is created.
C14_ZoneGateAsStated ==
  ZoneDecided =>
    /\ ZonePassed <=> (DestinationCountry = appr.store.country /\ RegionRule)
    /\ ~ZonePassed => ~ApprovalActed

\* C14 (amended): for a store that exists, the gate passes if and only if a
\* destination country and a destination city are both known (the metadata
\* value, else the profile value), the country equals the store's country
\* and the region rule holds; on rejection no PaymentRecord is created.
C14_ZoneGate ==
  ZoneDecided =>
    /\ ZonePassed <=>
         /\ DestinationCountry \notin {"undefined", ""}
         /\ DestinationCity \notin {"undefined", ""}
         /\ DestinationCountry = appr.store.country
         /\ RegionRule
    /\ ~ZonePassed => ~ApprovalActed

\* Store EG / [Cairo] / allow-list has rejected a delivery to Alexandria.
C14_Witness ==
  /\ appr.outcome = "error_zone"
  /\ appr.store.found /\ appr.store.country = "EG"
  /\ appr.store.deliveryRegions = <<"Cairo">> /\ appr.store.isAllowList # "false"
  /\ DestinationCountry = "EG" /\ DestinationCity = "Alexandria"

\* The same store has accepted a delivery to Cairo.
C14_AcceptsCairo ==
  /\ appr.outcome = "success"
  /\ appr.store.found /\ appr.store.deliveryRegions = <<"Cairo">>
  /\ appr.store.isAllowList # "false" /\ DestinationCity = "Cairo"


\* ------------------------------------------------------ dispute controller
\* The jobs in the scheduler that are about order o.
JobsFor(o) ==
  LET js == {j \in BagToSet(scheduled) : j.orderId = o}
  IN BagCardinality([j \in js |-> CopiesIn(j, scheduled)])

\* A report that is not open has exactly one job scheduled for its order,
\* an open one has none.
C16_State ==
  \A r \in Reports :
    /\ reports[r].status \in {"open", "resolved", "rejected"}
    /\ JobsFor(reports[r].orderId) = (IF reports[r].status = "open" THEN 0 ELSE 1)

\* A step changes a report's status only from open, to resolved together
\* with a refund job or to rejected together with a payout job; it leaves a
\* report that is not open, its order and the jobs of that order unchanged.
C16_Step ==
  \A r \in Reports :
    LET o == reports[r].orderId
    IN /\ reports[r].status # "open" =>
            /\ reports'[r] = reports[r]
            /\ orders'[o] = orders[o]
            /\ JobsFor(o)' = JobsFor(o)
       /\ reports'[r].status # reports[r].status =>
            /\ reports[r].status = "open"
            /\ \E j \in BagToSet(scheduled') :
                 /\ scheduled' = scheduled (+) SetToBag({j})
                 /\ j.orderId = o
                 /\ (reports'[r].status = "resolved" /\ j.op = "refundToCustomer")
                    \/ (reports'[r].status = "rejected" /\ j.op = "payoutToStore")

\* C16: a report changes status only out of open (refund: open to resolved,
\* dismiss: open to rejected); a resolveReport call on a resolved or rejected
\* report changes neither the report nor the order and schedules nothing, so
\* at most one refund or payout is ever scheduled for one report.
C16_ReportResolvedOnce == [](C16_State) /\ [][C16_Step]_vars

\* Both reports have been resolved, one each way, and two jobs are scheduled.
C16_Witness ==
  /\ reports["r1"].status = "resolved" /\ reports["r2"].status = "rejected"
  /\ BagCardinality(scheduled) = 2

\* The commission rate in percent as the claim states it: the configured
\* fraction, 5% when none is configured.
C17_RatePercent == IF env.commissionRate = "0.1" THEN 10 ELSE 5

C17_Step ==
  \A r \in Reports :
    LET o == reports[r].orderId
        total == orders[o].totalAmount
    IN /\ (reports[r].status = "open" /\ reports'[r].status = "rejected") =>
            \E j \in BagToSet(scheduled') :
              /\ scheduled' = scheduled (+) SetToBag({j})
              /\ j.op = "payoutToStore"
              /\ j.storeId = orders[o].storeId /\ j.orderId = o
              /\ j.amount * 100 = total * (100 - C17_RatePercent)
              /\ (total = 100 /\ C17_RatePercent = 5) => j.amount = 95
       /\ (reports[r].status = "open" /\ reports'[r].status = "resolved") =>
            \E j \in BagToSet(scheduled') :
              /\ scheduled' = scheduled (+) SetToBag({j})
              /\ j.op = "refundToCustomer"
              /\ j.userId = orders[o].userId /\ j.orderId = o
              /\ j.amount = total

\* C17: resolving an open report by dismiss schedules one store payout of
\* order total times (1 - commission rate), 95 for a 100-unit order at the
\* default 5%, and no refund; resolving it by refund schedules one refund of
\* the full order total to the customer and no payout.
C17_ScheduledAmounts == [][C17_Step]_vars

\* A dismissed report on a 100-unit order at the default rate, with its
\* 95-unit payout scheduled.
C17_Witness ==
  /\ env.commissionRate = "undefined"
  /\ reports["r1"].status = "rejected" /\ orders["o1"].totalAmount = 100
  /\ \E j \in BagToSet(scheduled) :
       j.op = "payoutToStore" /\ j.orderId = "o1" /\ j.amount = 95

C18_Step ==
  \A r \in Reports :
    LET o == reports[r].orderId
    IN /\ (reports[r].status = "open" /\ reports'[r].status = "resolved") =>
            orders'[o].status = "cancelled" /\ orders'[o].paymentStatus = "refunded"
       /\ (reports[r].status = "open" /\ reports'[r].status = "rejected") =>
            orders'[o].status = "delivered" /\ orders'[o].paymentStatus = "released"

\* C18: after resolveReport succeeds on an open report the order is
\* cancelled / refunded on the refund path and delivered / released on the
\* dismiss path, in every version of resolveReport.
C18_OrderFieldsAfterResolve == [][C18_Step]_vars


\* ------------------------------------------------- missing wallet, retries
\* Neither the owner's profile nor the store record holds a non-empty
\* wallet address.
NoWalletAnywhere(ans) ==
  /\ ans.found
  /\ ans.piWalletAddress \in {"undefined", ""}
  /\ ans.owner \in {"nouser", "noprofile", "undefined", ""}

\* With no wallet anywhere the lookup takes the missing-wallet branch; an
\* invocation that returned from that branch answered success=false with
\* willRetry, left its own record pending and scheduled once.
C15_State ==
  /\ \A ans \in StoreAnswers :
       NoWalletAnywhere(ans) => PayoutWalletMissing(ResolveStoreWallet(ans))
  /\ \A i \in Slots :
       /\ inv[i].nSched <= 1
       /\ (inv[i].pc = "done" /\ inv[i].nSched = 1) =>
            /\ inv[i].op = "payoutToStore"
            /\ inv[i].result.success = FALSE
            /\ inv[i].result.willRetry = TRUE
            /\ payouts[inv[i].payoutId].status = "pending"
            /\ inv[i].chain = "none"
       /\ (inv[i].pc = "done" /\ inv[i].result.willRetry) => inv[i].nSched = 1

\* The missing-wallet branch adds exactly one job to the scheduler: the same
\* operation with the invocation's storeId, orderId and amount, 300000 ms
\* later; the finalize step that follows adds none.
C15_Step ==
  \A i \in Slots :
    /\ (inv[i].pc = "schedule" /\ inv'[i].pc = "finalize") =>
         /\ scheduled' = scheduled (+)
              SetToBag({[op |-> "payoutToStore", storeId |-> inv[i].storeId,
                         orderId |-> inv[i].orderId, amount |-> inv[i].amount,
                         delay |-> 300000]})
         /\ payouts' = payouts
    /\ (inv[i].pc = "finalize" /\ inv[i].nSched = 1 /\ inv'[i].pc = "done") =>
         /\ scheduled' = scheduled
         /\ payouts'[inv[i].payoutId].status = "pending"

\* C15: a payoutToStore invocation with a new attempt and no non-empty
\* wallet address on the owner's profile or the store returns success=false
\* with willRetry=true, leaves its PayoutRecord pending, and schedules exactly
\* one re-execution of payoutToStore with the same storeId, orderId and
\* amount five minutes later.
C15_MissingWalletRetry == [](C15_State) /\ [][C15_Step]_vars

\* An invocation has returned from the missing-wallet branch and its retry
\* is waiting in the scheduler.
C15_Witness ==
  \E i \in Slots :
    /\ inv[i].op = "payoutToStore" /\ inv[i].pc = "done"
    /\ inv[i].result.willRetry /\ payouts[inv[i].payoutId].status = "pending"
    /\ \E j \in BagToSet(scheduled) :
         j.orderId = inv[i].orderId /\ j.amount = inv[i].amount /\ j.delay = 300000

\* A retryFailedPayout invocation has touched nothing: no attempt, no
\* submission, no job; if it has returned, it has failed.
C19_State ==
  \A i \in Slots :
    inv[i].op = "retryFailedPayout" =>
      /\ inv[i].payoutId = 0 /\ inv[i].startStatus = "none"
      /\ inv[i].chain = "none" /\ inv[i].nSched = 0 /\ inv[i].finalized = 0
      /\ inv[i].pc = "done" => ~inv[i].result.success

\* The steps of retryFailedPayout change neither the ledger nor the
\* scheduler; its check hands the arguments to payoutToStore exactly when the
\* caller's session resolved to a user, the store exists and that user owns
\* it, and ends in failure otherwise.
C19_Step ==
  \A i \in Slots :
    (inv[i].op = "retryFailedPayout" /\ inv'[i] # inv[i]) =>
      /\ payouts' = payouts /\ scheduled' = scheduled
      /\ inv[i].pc = "r_check" =>
           IF /\ inv[i].caller # "null"
              /\ inv[i].storeOwner # "null"
              /\ inv[i].storeOwner = inv[i].caller
             THEN /\ inv'[i].op = "payoutToStore" /\ inv'[i].pc = "start"
                  /\ inv'[i].storeId = inv[i].storeId
                  /\ inv'[i].orderId = inv[i].orderId
                  /\ inv'[i].amount = inv[i].amount
             ELSE /\ inv'[i].op = "retryFailedPayout" /\ inv'[i].pc = "done"
                  /\ ~inv'[i].result.success

\* C19: retryFailedPayout starts a payout only when the caller's session
\* resolves to a user who owns the given store; for an unknown token, an
\* unknown store or a user who does not own the store it fails without
\* reaching the payout start step: no PayoutRecord is created or changed and
\* no transfer is submitted.
C19_RetryOwnerOnly == [](C19_State) /\ [][C19_Step]_vars

\* A retry by someone who is not the owner has been refused while a payout
\* attempt of another invocation exists, untouched.
C19_Witness ==
  \E i \in Slots :
    /\ inv[i].op = "retryFailedPayout" /\ inv[i].pc = "done"
    /\ ~inv[i].result.success
    /\ \E r \in Slots : payouts[r].status # "none"

\* ------------------------------------------------------ fulfillment trigger
\* The calls that invoked processCompletedPayment for payment p.
FulfillmentCalls(p) ==
  {i \in Calls : call[i].paymentId = p /\ (call[i].processed \/ call[i].processFailed)}

\* C20: over any interleaving of completePiPayment and
\* handleIncompletePaymentAction calls for one paymentId,
\* processCompletedPayment is invoked at most once for that paymentId, and it
\* has been invoked when a call that wrote the completion returned success.
C20_FulfillmentAtMostOnce ==
  \A p \in Payments :
    /\ Cardinality(FulfillmentCalls(p)) <= 1
    /\ (\E i \in Calls : /\ call[i].paymentId = p /\ call[i].pc = "done"
                          /\ call[i].outcome = "success" /\ call[i].wroteCompleted)
         => FulfillmentCalls(p) # {}



\* ---------------------------------------------------------------- webhook
\* The signature header spells the HMAC of the body: with the sha256= prefix
\* (if it leads the text) taken off, the text is the hex digest, in lower or
\* in upper case.
StripPrefix(text) ==
  IF Len(text) >= Len(Sha256Prefix) /\ SubSeq(text, 1, Len(Sha256Prefix)) = Sha256Prefix
  THEN SubSeq(text, Len(Sha256Prefix) + 1, Len(text))
  ELSE text

SpellsHmac(signature, secret, rawBody) ==
  /\ signature.given
  /\ LET t == StripPrefix(signature.text)
         d == HmacSha256Hex(secret, rawBody)
     IN  t \in {d, [i \in 1..Len(d) |-> UpperCase[d[i]]]}

\* C21: with a webhook secret configured, verifyPiWebhook answers
\* isValid = false to every request whose signature header is absent or does
\* not spell the HMAC-SHA256 of the raw body under the secret (the sha256=
\* prefix stripped), whatever the body and whatever the length or format of
\* the signature.
C21_BadSignatureRejected ==
  (/\ hook.pc = "done"
   /\ hook.secret \in WebhookSecrets
   /\ ~SpellsHmac(hook.signature, hook.secret, hook.rawBody))
  => hook.isValid = FALSE

\* C22: in approvePiPayment an approve endpoint answer saying that the
\* payment is already approved is treated as success, the call returning
\* without error; only the other non-success answers fail the call.
C22_AlreadyApprovedIsSuccess ==
  appr.pc = "done" =>
    /\ appr.approveAnswer \in {"ok", "already_approved"} => appr.outcome = "success"
    /\ appr.approveAnswer = "error" => appr.outcome = "error_approve"

\* ---------------------------------------------------------------- custody
Transfer(i) == custody.transfer[i]

\* C23: submissions from the custodial wallet are serialized: two
\* invocations for different orders never hold, at the same time,
\* transactions built from the same loaded account sequence number, and no
\* submission is rejected because another one consumed its sequence number.
C23_SubmissionsSerialized ==
  /\ \A i, j \in Slots :
        (/\ i # j
         /\ inv[i].orderId # inv[j].orderId
         /\ Transfer(i).stage = "loaded"
         /\ Transfer(j).stage = "loaded")
        => Transfer(i).loadedSeq # Transfer(j).loadedSeq
  /\ \A i \in Slots : Transfer(i).outcome # "bad_seq"

\* C25: the identifier attached to a disbursement is a function of the
\* orderId and the direction only: two submissions for the same order and
\* direction carry the same identifier, whenever and by whichever invocation
\* they are made, and the identifiers of the two directions differ.
C25_DeterministicIdentifier ==
  \A i, j \in Slots :
    (/\ Transfer(i).stage = "submitted"
     /\ Transfer(j).stage = "submitted"
     /\ inv[i].orderId = inv[j].orderId)
    => (inv[i].op = inv[j].op <=> Transfer(i).memo = Transfer(j).memo)

\* ------------------------------------------------------- chain failures
ChainFailed(i) == inv[i].chain \in {"rejected", "loadfail"}

\* An invocation whose chain submission failed and that has returned
\* answered success=false with the error text and without willRetry, left
\* its own record failed with that text, and scheduled nothing.
C24_State ==
  \A i \in Slots :
    (inv[i].pc = "done" /\ ChainFailed(i)) =>
      /\ inv[i].result.success = FALSE
      /\ inv[i].result.willRetry = FALSE
      /\ inv[i].result.reason = "chain error"
      /\ inv[i].finalized = 1
      /\ inv[i].nSched = 0
      /\ payouts[inv[i].payoutId].status = "failed"
      /\ payouts[inv[i].payoutId].failureReason = "chain error"

\* A failing submission writes nothing to the ledger and schedules nothing;
\* the finalize step that follows patches the invocation's own record to
\* failed and schedules nothing.
C24_Step ==
  \A i \in Slots :
    /\ (inv[i].pc = "submit" /\ inv'[i] # inv[i] /\ inv'[i].chain \in {"rejected", "loadfail"}) =>
         /\ inv'[i].pc = "finalize"
         /\ payouts' = payouts /\ scheduled' = scheduled
    /\ (inv[i].pc = "finalize" /\ ChainFailed(i) /\ inv'[i].pc = "done") =>
         /\ scheduled' = scheduled
         /\ payouts'[inv[i].payoutId].status = "failed"
         /\ \A k \in DOMAIN payouts : k # inv[i].payoutId => payouts'[k] = payouts[k]

\* C24: when the chain submission of a payout or refund fails for any reason
\* (network error, rejection, unfunded or insufficient custodial account),
\* the attempt's PayoutRecord is finalized as failed with the error text, the
\* invocation returns success=false, and no automatic retry is scheduled.
C24_ChainFailureFinalizedFailed == [](C24_State) /\ [][C24_Step]_vars

\* A payout and a refund have both returned after a failed submission, one
\* rejected by the chain, one unable to load the custodial account.
C24_Witness ==
  \E i, j \in Slots :
    /\ inv[i].pc = "done" /\ inv[i].chain = "rejected"
    /\ inv[j].pc = "done" /\ inv[j].chain = "loadfail"
    /\ inv[i].op # inv[j].op
    /\ payouts[inv[i].payoutId].status = "failed"
    /\ payouts[inv[j].payoutId].status = "failed"

\* ------------------------------------------------- refund and payout
\* The invocation found no wallet linked for its recipient (lines 218, 504).
FoundNoWallet(i) ==
  inv[i].finReason \in {"Awaiting Wallet Linkage. Retrying soon.",
                        "Customer has no Wallet Address linked"}

\* C26: refundToCustomer and payoutToStore are the same flow up to the
\* recipient, with the same PayoutRecord transitions and the same scheduling
\* decisions; in particular an invocation of either whose recipient has no
\* linked wallet leaves its record pending, with one retry scheduled and
\* willRetry in its answer.
C26_SameFlowBothDirections ==
  \A i \in Slots :
    (inv[i].pc = "done" /\ inv[i].startStatus = "new" /\ FoundNoWallet(i)) =>
      /\ payouts[inv[i].payoutId].status = "pending"
      /\ inv[i].nSched = 1
      /\ inv[i].result.willRetry

\* ------------------------------------------------------------ crashes
\* The record of a crashed invocation is in_progress, and an invocation
\* that was answered with it returned the in-progress failure having
\* created no record, submitted nothing and scheduled nothing.
C27_State ==
  \A i \in Slots :
    inv[i].pc = "crashed" =>
      /\ inv[i].payoutId > 0
      /\ payouts[inv[i].payoutId].status = "in_progress"
      /\ \A j \in Slots :
           (inv[j].pc = "done" /\ inv[j].blockedBy = inv[i].payoutId) =>
             /\ inv[j].startStatus = "in_progress"
             /\ ~inv[j].result.success
             /\ inv[j].result.reason = InProgressReason(inv[j].op)
             /\ inv[j].payoutId = 0 /\ inv[j].chain = "none"
             /\ inv[j].nSched = 0 /\ inv[j].finalized = 0

\* No step changes the record of a crashed invocation, and the start step of
\* any invocation for the same (storeId, orderId), whether invoked directly,
\* through retryFailedPayout or by the scheduler, is answered in_progress and
\* returns at once, the ledger unchanged.
C27_Step ==
  \A i \in Slots :
    inv[i].pc = "crashed" =>
      /\ inv'[i] = inv[i]
      /\ payouts'[inv[i].payoutId] = payouts[inv[i].payoutId]
      /\ \A j \in Slots :
           (/\ inv[j].pc = "start" /\ inv'[j] # inv[j]
            /\ inv[j].storeId = inv[i].storeId
            /\ inv[j].orderId = inv[i].orderId) =>
             /\ inv'[j].pc = "done"
             /\ inv'[j].startStatus = "in_progress"
             /\ ~inv'[j].result.success
             /\ payouts' = payouts /\ scheduled' = scheduled

\* C27: when an invocation of payoutToStore or refundToCustomer stops after
\* its start step created an in_progress PayoutRecord and before its finalize
\* step, that record stays in_progress for ever, and every later
\* payoutToStore, refundToCustomer, retryFailedPayout or scheduled retry for
\* the same (recipient, orderId) returns the in-progress failure without
\* submitting a transfer; no operation moves the record out of in_progress.
C27_CrashLeavesInProgress == [](C27_State) /\ [][C27_Step]_vars

\* An invocation crashed with its record in_progress and a later invocation
\* for the same pair came back with the in-progress failure.
C27_Witness ==
  \E i, j \in Slots :
    /\ inv[i].pc = "crashed"
    /\ payouts[inv[i].payoutId].status = "in_progress"
    /\ inv[j].pc = "done" /\ inv[j].blockedBy = inv[i].payoutId
    /\ inv[j].startStatus = "in_progress" /\ ~inv[j].result.success

\* ------------------------------------------------------ pending records
StatusesOf(s, o) == {payouts[k].status : k \in SameKey(payouts, s, o)}

\* The pair's records are pending ones only (at least one).
PendingOnly(s, o) ==
  /\ "pending" \in StatusesOf(s, o)
  /\ StatusesOf(s, o) \cap {"in_progress", "completed"} = {}

\* The start step of an invocation whose pair has pending records only is
\* answered with a new attempt: a new in_progress record, the invocation
\* going on to its lookups.
C28_Step ==
  \A i \in Slots :
    (/\ inv[i].pc = "start" /\ inv'[i] # inv[i]
     /\ PendingOnly(inv[i].storeId, inv[i].orderId)) =>
      /\ inv'[i].startStatus = "new"
      /\ inv'[i].pc = "lookup"
      /\ inv'[i].payoutId > 0
      /\ payouts[inv'[i].payoutId].status = "none"
      /\ payouts'[inv'[i].payoutId].status = "in_progress"

\* Such an attempt returns: with its record completed when the chain
\* accepted the transfer, with its record pending and one further retry
\* scheduled when the wallet was still missing.
C28_Returned(i) ==
  /\ inv[i].pc = "done"
  /\ inv[i].chain = "accepted" =>
       /\ inv[i].result.success
       /\ payouts[inv[i].payoutId].status = "completed"
  /\ FoundNoWallet(i) =>
       /\ inv[i].result.willRetry
       /\ inv[i].nSched = 1
       /\ payouts[inv[i].payoutId].status = "pending"

C28_Live ==
  \A i \in Slots :
    (/\ inv[i].pc = "lookup" /\ inv[i].startStatus = "new"
     /\ "pending" \in StatusesOf(inv[i].storeId, inv[i].orderId))
    ~> C28_Returned(i)

\* C28: a pending PayoutRecord left by a missing-wallet attempt does not
\* block the scheduled retry: the retry's start step yields a new attempt;
\* when the owner has linked a wallet by then and the chain accepts the
\* transfer, a PayoutRecord of that (store, order) eventually reaches
\* completed; when the wallet is still missing, the retry again ends pending
\* with one further retry scheduled.
C28_PendingDoesNotBlockRetry == [][C28_Step]_vars /\ C28_Live

\* The scheduled retry of a missing-wallet attempt has returned with its own
\* record completed, the first attempt's record still pending.
C28_Witness ==
  \E i, j \in Slots :
    /\ i # j
    /\ inv[i].pc = "done" /\ inv[i].result.willRetry
    /\ payouts[inv[i].payoutId].status = "pending"
    /\ inv[j].pc = "done" /\ inv[j].result.success
    /\ inv[j].storeId = inv[i].storeId /\ inv[j].orderId = inv[i].orderId
    /\ inv[j].startStatus = "new"
    /\ payouts[inv[j].payoutId].status = "completed"
    /\ scheduled = EmptyBag

\* ------------------------------------------------------- manual retries
\* The invocations that came in through retryFailedPayout: under
\* ManualRetrySpec every slot but the first.
RetrySlots == Slots \ {1}

\* C29: retryFailedPayout only retries a failed payout: a call leads to a
\* chain submission for (storeId, orderId) only if an earlier payout attempt
\* for that pair exists that ended failed (or pending), and the amount
\* submitted is the amount of that earlier attempt, not one of the caller's
\* choice.
C29_RetryOnlyFailedPayout ==
  \A i \in RetrySlots :
    inv[i].chain \in {"accepted", "rejected"} =>
      \E k \in SameKey(payouts, inv[i].storeId, inv[i].orderId) :
        /\ k # inv[i].payoutId
        /\ payouts[k].status \in {"failed", "pending"}
        /\ payouts[k].amount = inv[i].amount

\* ----------------------------------------------------------- finalizing
\* No invocation is running: each slot is unused, has returned, or has ended
\* with an error.
Quiescent == \A i \in Slots : inv[i].pc \in {"idle", "done", "thrown"}

\* Only an invocation with a new attempt calls the finalize step, and at most
\* once; one that has returned has called it once, on its own record, with
\* completed, failed or pending: completed exactly when the chain accepted
\* its transfer.  With no invocation running, no record is in_progress.
C30_State ==
  /\ \A i \in Slots :
       /\ inv[i].finalized <= 1
       /\ inv[i].finalized >= 1 => inv[i].startStatus = "new"
       /\ (inv[i].pc = "done" /\ inv[i].startStatus = "new") =>
            /\ inv[i].finalized = 1
            /\ inv[i].payoutId > 0
            /\ payouts[inv[i].payoutId].status = inv[i].fin
            /\ inv[i].fin \in {"completed", "failed", "pending"}
            /\ inv[i].fin = "completed" <=> inv[i].chain = "accepted"
  /\ Quiescent => \A k \in DOMAIN payouts : payouts[k].status # "in_progress"

\* A record leaves in_progress only by a finalize step of the invocation
\* that created it, which then returns.
C30_Step ==
  \A k \in DOMAIN payouts :
    (payouts[k].status = "in_progress" /\ payouts'[k] # payouts[k]) =>
      \E i \in Slots :
        /\ inv[i].payoutId = k
        /\ inv[i].pc \in {"finalize", "catch"} /\ inv'[i].pc = "done"
        /\ inv'[i].finalized = inv[i].finalized + 1
        /\ payouts'[k].status = inv[i].fin

\* C30: absent a crash, every invocation of payoutToStore or
\* refundToCustomer whose start step returned a new attempt calls the finalize
\* step exactly once on its own PayoutRecord before returning, with status
\* completed, failed or pending, on every path (store not found, owner or
\* profile lookup failing, wallet missing, configuration missing, chain
\* error, success); so whenever no invocation is running, no PayoutRecord is
\* in_progress, and a record whose chain submission succeeded is finalized
\* as completed, never as failed.
C30_FinalizedOnEveryPath == [](C30_State) /\ [][C30_Step]_vars

\* An invocation has returned {success: false} after the chain accepted its
\* transfer: its first finalizePayout call (completed) rejected, its second
\* one recorded the attempt as failed.
C30_AcceptedRecordedFailed ==
  \E i \in Slots :
    /\ inv[i].pc = "done" /\ inv[i].startStatus = "new"
    /\ inv[i].chain = "accepted"
    /\ inv[i].finalized = 2
    /\ payouts[inv[i].payoutId].status = "failed"
    /\ ~inv[i].result.success

\* No transfer is under way, and an invocation that took a new attempt has
\* ended with the error of its profile or store lookup, without a finalize
\* call: its record stays in_progress.
C30_LookupFailedUnfinalized ==
  /\ Quiescent
  /\ \E i \in Slots :
       /\ inv[i].pc = "thrown" /\ inv[i].startStatus = "new"
       /\ inv[i].finalized = 0
       /\ payouts[inv[i].payoutId].status = "in_progress"

====
